---- MODULE Spec2Model ----
(***************************************************************************)
(* Client-side reconciliation logic of the meetup front end: the temporal  *)
(* evaluator (hasMeetupPassed / hasMeetupStarted), the contract output     *)
(* decoder and collection fetch (fetchMeetups), the view partitioner       *)
(* (AppPage.activeMeetups, MyMeetups.filterMyMeetups), the registration    *)
(* predicate of MeetupDetails and the mutating action sites.               *)
(*                                                                         *)
(* JavaScript strings that the code inspects character by character are    *)
(* sequences of character codes; NaN is the sentinel NaN below.  Times are *)
(* milliseconds since the epoch.                                           *)
(***************************************************************************)
EXTENDS Integers, Sequences, FiniteSets, TLC

\* ---------------------------------------------------------------- bounds
\* number of clock steps the model lets the wall clock advance
MaxTicks == 4
\* number of records in one get_all_meetups response
MaxBatch == 2
\* number of get_all_meetups queries of AppPage outstanding at once
MaxInflight == 2
MaxRuns == 2
MaxKeystrokes == 3

\* ------------------------------------------------------------- constants
\* sentinel for the JavaScript value NaN (no timestamp of the model is negative)
NaN == -1
MsPerSecond == 1000
MsPerHour == 3600000
\* the instant the model's clock starts at (16:40:00 UTC on 1 Jan 1970)
Epoch0 == 60000000
\* clock resolution of the model: the clock advances in half seconds
TickMs == 500
SettleDelayMs == 2000

\* string literals as character codes
UTC == <<85, 84, 67>>
Japan == <<74, 97, 112, 97, 110>>
EST == <<69, 83, 84>>
NA == <<78, 47, 65>>
EmptyStr == <<>>

IsNaN(x) == x = NaN

\* result of a JavaScript expression that may throw
Ok(v) == [ok |-> TRUE, v |-> v]
Throw == [ok |-> FALSE, v |-> NaN]

\* ------------------------------------------------ Intl / Date primitives
\* zones Intl.DateTimeFormat accepts; any other name raises RangeError
ValidZones == {UTC, Japan, EST}
ZoneOffsetMs(z) == IF z = Japan THEN 9 * MsPerHour ELSE IF z = EST THEN -5 * MsPerHour ELSE 0

\* new Intl.DateTimeFormat('en-US', {timeZone, year..second}).format(new Date(ts)):
\* the wall-clock reading of ts in the zone, to the second; throws on an
\* invalid zone (constructor) or an invalid date (format)
FormatInZone(ts, zone) ==
  IF zone \notin ValidZones THEN Throw
  ELSE IF IsNaN(ts) THEN Throw
  ELSE LET wallSec == (ts + ZoneOffsetMs(zone)) \div MsPerSecond
       IN Ok([day |-> wallSec \div 86400,
              hour |-> (wallSec % 86400) \div 3600,
              minute |-> (wallSec % 3600) \div 60,
              second |-> wallSec % 60])

\* new Date("M/D/YYYY, h:mm:ss AM"): the wall-clock reading taken as a
\* reading of the viewer's local zone
ParseLocal(wall, local) ==
  (wall.day * 86400 + wall.hour * 3600 + wall.minute * 60 + wall.second) * MsPerSecond
    - ZoneOffsetMs(local)

\* meetup.timezone || 'UTC'
ZoneOrUTC(tz) == IF tz = EmptyStr THEN UTC ELSE tz

\* Date < Date and Date <= Date: false when either side is NaN
DateLt(a, b) == ~IsNaN(a) /\ ~IsNaN(b) /\ a < b
DateLe(a, b) == ~IsNaN(a) /\ ~IsNaN(b) /\ a <= b

\* the try block of hasMeetupPassed / hasMeetupStarted up to the comparison
MeetupLocalTime(meetup, local) ==
  LET f == FormatInZone(meetup.timestamp, ZoneOrUTC(meetup.timezone))
  IN IF f.ok THEN Ok(ParseLocal(f.v, local)) ELSE Throw

hasMeetupPassed_failClosed(meetup, currentDate, local) ==
  LET meetupLocalTime == MeetupLocalTime(meetup, local)
  IN IF meetupLocalTime.ok THEN DateLt(meetupLocalTime.v, currentDate) ELSE TRUE

hasMeetupPassed(meetup, currentDate, local) ==
  LET meetupLocalTime == MeetupLocalTime(meetup, local)
  IN IF meetupLocalTime.ok THEN DateLt(meetupLocalTime.v, currentDate) ELSE FALSE

hasMeetupStarted_noBoundary(meetup, currentDate, local) ==
  LET meetupLocalTime == MeetupLocalTime(meetup, local)
  IN IF meetupLocalTime.ok THEN DateLt(meetupLocalTime.v, currentDate) ELSE FALSE

hasMeetupStarted(meetup, currentDate, local) ==
  LET meetupLocalTime == MeetupLocalTime(meetup, local)
  IN IF meetupLocalTime.ok THEN DateLe(meetupLocalTime.v, currentDate) ELSE FALSE

\* ------------------------------------------------------ JavaScript values
\* a loosely typed value of the contract output: t is the typeof / shape,
\* v the content (character codes, bytes, list elements, or <<n>> for a number)
Undefined == [t |-> "undefined", v |-> <<>>]
JStr(codes) == [t |-> "string", v |-> codes]
JNum(n) == [t |-> "number", v |-> <<n>>]
JArr(elems) == [t |-> "array", v |-> elems]
JNull == [t |-> "null", v |-> <<>>]
\* { _enum: name }
JEnum(name) == [t |-> "enum", v |-> name]

Planned == <<80, 108, 97, 110, 110, 101, 100>>
Ongoing == <<79, 110, 103, 111, 105, 110, 103>>
Ended == <<69, 110, 100, 101, 100>>
Cancelled == <<67, 97, 110, 99, 101, 108, 108, 101, 100>>
Online == <<79, 110, 108, 105, 110, 101>>
InPerson == <<73, 110, 80, 101, 114, 115, 111, 110>>
HexPrefix == <<48, 120>>
Comma == 44

\* !vec
Falsy(x) ==
  \/ x.t = "undefined"
  \/ x.t = "null"
  \/ (x.t = "string" /\ x.v = <<>>)
  \/ (x.t = "number" /\ (x.v[1] = 0 \/ IsNaN(x.v[1])))

IsDigit(c) == c >= 48 /\ c <= 57
IsHexDigit(c) == IsDigit(c) \/ (c >= 97 /\ c <= 102) \/ (c >= 65 /\ c <= 70)
HexValue(c) == IF IsDigit(c) THEN c - 48 ELSE IF c >= 97 THEN c - 87 ELSE c - 55

\* parseInt(byte, 16) of a chunk of one or two characters
ParseHexChunk(chunk) ==
  IF ~IsHexDigit(chunk[1]) THEN NaN
  ELSE IF Len(chunk) = 2 /\ IsHexDigit(chunk[2])
       THEN 16 * HexValue(chunk[1]) + HexValue(chunk[2])
       ELSE HexValue(chunk[1])

\* str.match(/.{1,2}/g): the chunks of two characters, the last one possibly of one
RECURSIVE MatchPairs(_)
MatchPairs(str) ==
  IF Len(str) = 0 THEN <<>>
  ELSE IF Len(str) = 1 THEN <<str>>
  ELSE <<SubSeq(str, 1, 2)>> \o MatchPairs(SubSeq(str, 3, Len(str)))

\* Uint8Array.from / new Uint8Array: NaN becomes 0, numbers wrap modulo 256
ToUint8(n) == IF IsNaN(n) THEN 0 ELSE n % 256

\* new TextDecoder().decode(bytes) on single-byte text: an ASCII byte is its
\* character, a stray byte above 127 the replacement character U+FFFD
TextDecode(bytes) == [i \in 1..Len(bytes) |-> IF bytes[i] < 128 THEN bytes[i] ELSE 65533]

StartsWith0x(str) == Len(str) >= 2 /\ SubSeq(str, 1, 2) = HexPrefix

decodeVecU8(vec) ==
  IF Falsy(vec) THEN Ok(NA)
  ELSE IF vec.t = "array" THEN Ok(TextDecode([i \in 1..Len(vec.v) |-> ToUint8(vec.v[i])]))
  ELSE IF vec.t = "string" THEN
    IF StartsWith0x(vec.v)
    THEN LET rest == SubSeq(vec.v, 3, Len(vec.v))
             chunks == MatchPairs(rest)
         IN IF chunks = <<>> THEN Throw \* match() is null, null.map raises TypeError
            ELSE Ok(TextDecode([i \in 1..Len(chunks) |-> ToUint8(ParseHexChunk(chunks[i]))]))
    ELSE Ok(vec.v)
  ELSE Ok(NA)

\* str.replace(/,/g, '')
RECURSIVE StripCommas(_)
StripCommas(str) ==
  IF str = <<>> THEN <<>>
  ELSE IF Head(str) = Comma THEN StripCommas(Tail(str))
  ELSE <<Head(str)>> \o StripCommas(Tail(str))

\* parseInt(str) on text without sign or leading blanks: the value of the
\* longest prefix of decimal digits, NaN when there is none
RECURSIVE ParseDigits(_, _)
ParseDigits(str, acc) ==
  IF str = <<>> \/ ~IsDigit(Head(str)) THEN acc
  ELSE ParseDigits(Tail(str), 10 * acc + (Head(str) - 48))

parseInt(str) == IF str = <<>> \/ ~IsDigit(str[1]) THEN NaN ELSE ParseDigits(str, 0)

\* parseInt(meetup.timestamp.replace(/,/g, '')): replace exists on strings only
ParseGrouped(x) == IF x.t = "string" THEN Ok(parseInt(StripCommas(x.v))) ELSE Throw

\* parseInt(meetup.maxAttendees): the argument is converted to a string first
ParseLoose(x) ==
  IF x.t = "string" THEN parseInt(x.v)
  ELSE IF x.t = "number" THEN x.v[1]
  ELSE NaN

\* meetup.location_type?._enum
EnumName(x) == IF x.t = "enum" THEN JStr(x.v) ELSE Undefined

\* the body of meetupsData.map(([id, meetup]) => ...) in fetchMeetups
DecodeMeetup(id, meetup) ==
  LET title == decodeVecU8(meetup.title)
      location == decodeVecU8(meetup.location)
      description == decodeVecU8(meetup.description)
      timestamp == ParseGrouped(meetup.timestamp)
      price == ParseGrouped(meetup.price)
      timezone == decodeVecU8(meetup.timezone)
      locationType ==
        IF \/ EnumName(meetup.location_type) = JStr(Online)
           \/ meetup.locationType = JStr(Online)
           \/ meetup.loc_type = JStr(Online)
        THEN Online ELSE InPerson
  IN IF \/ ~title.ok \/ ~location.ok \/ ~description.ok
        \/ ~timestamp.ok \/ ~price.ok \/ ~timezone.ok
        \/ meetup.attendees.t # "array"      \* undefined.map raises TypeError
        \/ meetup.host.t = "undefined"       \* undefined.toString raises TypeError
     THEN [ok |-> FALSE, v |-> <<>>]
     ELSE [ok |-> TRUE, v |-> <<
            [id |-> id,
             title |-> title.v,
             location |-> location.v,
             locationType |-> locationType,
             description |-> description.v,
             timestamp |-> timestamp.v,
             price |-> price.v,
             maxAttendees |-> ParseLoose(meetup.maxAttendees),
             attendees |-> meetup.attendees.v,
             status |-> meetup.status,
             totalPaid |-> IF meetup.totalPaid.t = "string"
                           THEN JNum(parseInt(StripCommas(meetup.totalPaid.v)))
                           ELSE meetup.totalPaid,
             host |-> meetup.host.v,
             timezone |-> IF timezone.v = EmptyStr THEN UTC ELSE timezone.v]>>]

\* meetupsData.map(...) over the whole batch: one throwing record aborts the map
RECURSIVE DecodeAll(_)
DecodeAll(batch) ==
  IF batch = <<>> THEN [ok |-> TRUE, v |-> <<>>]
  ELSE LET first == DecodeMeetup(Head(batch)[1], Head(batch)[2])
           rest == DecodeAll(Tail(batch))
       IN IF first.ok /\ rest.ok THEN [ok |-> TRUE, v |-> first.v \o rest.v]
          ELSE [ok |-> FALSE, v |-> <<>>]

\* ------------------------------------------------------- account identity
\* an SS58 address text: a network prefix character followed by the encoded
\* public key; the same key has one text per network prefix
Alice5 == <<53, 65>>
Alice1 == <<49, 65>>
Bob5 == <<53, 66>>
Bob1 == <<49, 66>>
Carol5 == <<53, 67>>
\* activeAccount of useInkathon when no wallet is connected
NoAccount == <<>>

\* decodeAddress(address): the raw public key bytes, the prefix dropped
decodeAddress(address) == Tail(address)

HexDigitCode(n) == IF n < 10 THEN 48 + n ELSE 87 + n
RECURSIVE HexDigits(_)
HexDigits(bytes) ==
  IF bytes = <<>> THEN <<>>
  ELSE <<HexDigitCode(Head(bytes) \div 16), HexDigitCode(Head(bytes) % 16)>> \o HexDigits(Tail(bytes))

\* u8aToHex(bytes)
u8aToHex(bytes) == HexPrefix \o HexDigits(bytes)

SameIdentity_textual(a, b) == a = b

\* u8aToHex(decodeAddress(a)) === u8aToHex(decodeAddress(b))
SameIdentity(a, b) == u8aToHex(decodeAddress(a)) = u8aToHex(decodeAddress(b))

\* attendees.some((a) => u8aToHex(decodeAddress(a)) === pubKey)
SomeAttendee(attendees, address) ==
  \E i \in 1..Len(attendees) : SameIdentity(attendees[i], address)

\* MyMeetups.filterMyMeetups: the hosted and attending lists it leaves
filterMyMeetups(account, meetups, hosted, attending) ==
  IF account = NoAccount \/ Len(meetups) = 0
  THEN [hosted |-> hosted, attending |-> attending]
  ELSE [hosted |-> SelectSeq(meetups, LAMBDA m : SameIdentity(m.host, account)),
        attending |-> SelectSeq(meetups, LAMBDA m : SomeAttendee(m.attendees, account))]

ActiveMeetups_unfiltered(meetups, currentDate, local) == meetups

\* AppPage: allMeetups.filter((meetup) => !hasMeetupPassed(meetup, currentDate))
ActiveMeetups(meetups, currentDate, local) ==
  SelectSeq(meetups, LAMBDA m : ~hasMeetupPassed(m, currentDate, local))

\* ---------------------------------------------------- location coordinates
\* a JavaScript number: finite (held in tenths), NaN or Infinity
Num(n) == [k |-> "num", v |-> n]
NaNNum == [k |-> "nan", v |-> 0]
Infinity == [k |-> "inf", v |-> 0]
isNaN(x) == x.k = "nan"

Minus == 45
Dot == 46
Pipe == 124
Space == 32

\* str.split(',')
RECURSIVE SplitComma(_, _)
SplitComma(str, piece) ==
  IF str = <<>> THEN <<piece>>
  ELSE IF Head(str) = Comma THEN <<piece>> \o SplitComma(Tail(str), <<>>)
  ELSE SplitComma(Tail(str), Append(piece, Head(str)))

split(str) == SplitComma(str, <<>>)

\* the i-th element of an array, undefined past its end
At(arr, i) == IF i <= Len(arr) THEN JStr(arr[i]) ELSE Undefined

RECURSIVE TrimLeft(_)
TrimLeft(str) == IF str # <<>> /\ Head(str) = Space THEN TrimLeft(Tail(str)) ELSE str

RECURSIVE TrimRight(_)
TrimRight(str) ==
  IF str # <<>> /\ str[Len(str)] = Space THEN TrimRight(SubSeq(str, 1, Len(str) - 1)) ELSE str

\* the longest prefix of decimal digits of str
RECURSIVE DigitPrefix(_)
DigitPrefix(str) ==
  IF str = <<>> \/ ~IsDigit(Head(str)) THEN <<>> ELSE <<Head(str)>> \o DigitPrefix(Tail(str))

\* the longest prefix of str that is a decimal literal (sign, digits, point,
\* digits): whether there is one, its value in tenths and the text after it.
\* The texts of the runs carry at most one fractional digit and no exponent.
DecimalPrefix(str) ==
  LET negative == str # <<>> /\ Head(str) = Minus
      unsigned == IF negative THEN Tail(str) ELSE str
      whole == DigitPrefix(unsigned)
      afterWhole == SubSeq(unsigned, Len(whole) + 1, Len(unsigned))
      hasPoint == afterWhole # <<>> /\ Head(afterWhole) = Dot
      fraction == IF hasPoint THEN DigitPrefix(Tail(afterWhole)) ELSE <<>>
      ok == whole # <<>> \/ fraction # <<>>
      takesPoint == hasPoint /\ ok
      rest == IF takesPoint
              THEN SubSeq(afterWhole, Len(fraction) + 2, Len(afterWhole))
              ELSE afterWhole
      magnitude == 10 * ParseDigits(whole, 0) + (IF fraction # <<>> THEN fraction[1] - 48 ELSE 0)
  IN [ok |-> ok, v |-> IF negative THEN 0 - magnitude ELSE magnitude, rest |-> rest]

\* Number(x): the whole trimmed text must be a literal, the empty text is 0
Number(x) ==
  IF x.t # "string" THEN NaNNum
  ELSE LET text == TrimRight(TrimLeft(x.v))
           literal == DecimalPrefix(text)
       IN IF text = <<>> THEN Num(0)
          ELSE IF literal.ok /\ literal.rest = <<>> THEN Num(literal.v)
          ELSE NaNNum

\* parseFloat(x): the longest literal prefix, NaN when there is none
parseFloat(x) ==
  IF x.t # "string" THEN NaNNum
  ELSE LET literal == DecimalPrefix(TrimLeft(x.v))
       IN IF literal.ok THEN Num(literal.v) ELSE NaNNum

Includes(str, c) == \E i \in 1..Len(str) : str[i] = c

NoCoords == <<>>

\* MeetupMap.parseLocation
MeetupMap_parseLocation(location) ==
  IF location = <<>> \/ Includes(location, Pipe) THEN NoCoords
  ELSE LET parts == split(location)
           lat == Number(At(parts, 1))
           lng == Number(At(parts, 2))
       IN IF isNaN(lat) \/ isNaN(lng) THEN NoCoords ELSE <<lat.v, lng.v>>

\* Home.parseLocation
Home_parseLocation(location) ==
  IF ~Includes(location, Comma) THEN NoCoords
  ELSE LET parts == split(location)
           lat == Number(At(parts, 1))
           lng == Number(At(parts, 2))
       IN IF isNaN(lat) \/ isNaN(lng) THEN NoCoords ELSE <<lat.v, lng.v>>

\* MeetupDetails.getLocationCoords
getLocationCoords(location) ==
  LET parts == split(location)
      lat == parseFloat(At(parts, 1))
      lon == parseFloat(At(parts, 2))
  IN IF ~isNaN(lat) /\ ~isNaN(lon) THEN <<lat.v, lon.v>> ELSE NoCoords

\* ------------------------------------------------------------------ state
VARIABLES
  localZone,     \* the viewer's zone (Intl.DateTimeFormat().resolvedOptions().timeZone)
  evalMeetup,    \* temporal evaluator: the record under evaluation
  evalDate,      \* temporal evaluator: the reference instant
  evalDone,      \* temporal evaluator: the card has been rendered
  evalPassed,    \* isPast = hasMeetupPassed(meetup, currentDate)
  evalStarted    \* hasStarted = hasMeetupStarted(meetup, currentDate)

VARIABLES
  now,              \* the wall clock (Date.now())
  activeAccount,    \* useInkathon().activeAccount.address, NoAccount when null
  apiReady,         \* contract && api
  currentTab,       \* AppPage.currentTab
  allMeetups,       \* AppPage.allMeetups
  fetchIsLoading,   \* AppPage.fetchIsLoading
  inflight,         \* get_all_meetups queries of AppPage awaiting their response, in issue order
  toasts,           \* toast.error notifications raised by the last step
  currentDate,      \* AppPage.currentDate of the last render
  activeMeetups,    \* AppPage.activeMeetups of the last render (the prop of Home / MeetupCalendar)
  hostedMeetups,    \* MyMeetups.hostedMeetups
  attendingMeetups, \* MyMeetups.attendingMeetups
  calMeetups,       \* MeetupCalendar.meetups (the calendar that runs its own query)
  calInflight,      \* number of get_all_meetups queries of MeetupCalendar awaiting their response
  overtaken,        \* how many of the oldest entries of inflight were issued before a query
                    \* of AppPage whose response has been handled already
  handled           \* the query response the last step handled, and the component that handled it

VARIABLES
  detailsMeetup,    \* MeetupDetails.meetup, NoMeetup when null
  isUserRegistered, \* MeetupDetails.isUserRegistered of the last render, as a truth value
  canRegister,      \* MeetupDetails.canRegister of the last render, as a truth value
  isRegistering,    \* MeetupDetails.isRegistering
  isUnregistering,  \* MeetupDetails.isUnregistering
  isSubmitting,     \* CreateMeetup.isSubmitting
  route,            \* the page the router shows
  runs,             \* the handler invocations that are past their first await
  requery           \* the re-query the last step issued after a contract call, if any

VARIABLES
  showEndConfirm,   \* MyMeetups.showEndConfirm
  endTxs,           \* the meetupId of every update_state(meetupId, 'Ended') transaction sent so far
  submitted         \* what CreateMeetup.handleSubmit read at its last call, NoForm before

VARIABLES
  addressText,           \* CreateMeetup.address, the text of the address input
  keystrokes,            \* number of changes of the address input so far
  debounce,              \* the call useDebounce holds on its timer, NoCall when none
  requests,              \* the suggestion requests awaiting their response
  abortControllerRef,    \* the request abortControllerRef.current belongs to, 0 when null
  addressOptions,        \* CreateMeetup.addressOptions, as the request that delivered them
  isAddressDropdownOpen, \* CreateMeetup.isAddressDropdownOpen
  applied                \* the response the last step stored, and the keystrokes made by then

VARIABLES
  homeMeetups,      \* Home's prop meetups
  userLocation,     \* Home.userLocation, NoLocation when null
  locationError,    \* Home.locationError is set
  inPersonMeetups,  \* Home.inPersonMeetups of the last render
  closestMeetupId,  \* Home.closestMeetupId of the last render, NoId when null
  mapMarkers,       \* ids of the markers Home.mapMarkers holds after the last render
  locationText,     \* location parsers: the location string under evaluation
  parsed,           \* location parsers: what each parser returned for it, NotParsed before
  rawMeetup,        \* record decoders: the raw record under evaluation
  decodings,        \* record decoders: what each decoder made of it, NotDecoded before
  encodedText,      \* decodeVecU8: the text whose encodings are decoded
  decodedForms,     \* decodeVecU8: what it returned for each encoding, NotDecoded before
  numericField,     \* numeric fields: the field and the integer the contract holds for it
  decodedNumber     \* numeric fields: the number fetchMeetups decoded, NotDecoded before

VARIABLES
  cardTimestamp,    \* MeetupCard: meetup.timestamp of the card
  cardReads,        \* MeetupCard: what Date.now() returned at each read of the last render
  countdown,        \* MeetupCard.countdown of the last render, NoCountdown when null
  calendarMeetups,  \* MeetupCalendar's prop meetups (the calendar that is given its records)
  selectedDate,     \* MeetupCalendar.selectedDate
  dotDays,          \* the days whose tile shows an indicator after the last render
  filteredMeetups   \* MeetupCalendar.filteredMeetups of the last render

evalVars == <<evalMeetup, evalDate, evalDone, evalPassed, evalStarted>>
envVars == <<localZone, now, activeAccount, apiReady>>
pageVars == <<currentTab, allMeetups, fetchIsLoading, inflight, toasts, currentDate, activeMeetups>>
myVars == <<hostedMeetups, attendingMeetups>>
calVars == <<calMeetups, calInflight, overtaken>>
detailVars == <<detailsMeetup, isUserRegistered, canRegister>>
siteVars == <<isRegistering, isUnregistering, isSubmitting, route, runs, requery>>
suggestVars == <<addressText, keystrokes, debounce, requests, abortControllerRef, addressOptions,
                 isAddressDropdownOpen, applied>>
geoVars == <<homeMeetups, userLocation, locationError, inPersonMeetups, closestMeetupId,
             mapMarkers, locationText, parsed>>
decodeVars == <<rawMeetup, decodings, encodedText, decodedForms, numericField,
                decodedNumber>>
endVars == <<showEndConfirm, endTxs>>
formVars == <<submitted>>
bucketVars == <<calendarMeetups, selectedDate, dotDays, filteredMeetups>>
cardVars == <<cardTimestamp, cardReads, countdown, bucketVars>>
vars == <<envVars, evalVars, pageVars, myVars, calVars, handled, detailVars, siteVars, suggestVars,
          geoVars, decodeVars, cardVars, endVars, formVars>>

\* the state of a component that is not mounted in the run at hand
EvalIdle ==
  /\ evalMeetup = [id |-> 1, timestamp |-> NaN, timezone |-> UTC]
  /\ evalDate = Epoch0
  /\ evalDone = FALSE
  /\ evalPassed = FALSE
  /\ evalStarted = FALSE

\* useState initial values of AppPage and MyMeetups
PageIdle ==
  /\ currentTab = "home"
  /\ allMeetups = <<>>
  /\ fetchIsLoading = FALSE
  /\ inflight = <<>>
  /\ toasts = <<>>
  /\ currentDate = Epoch0
  /\ activeMeetups = <<>>
  /\ hostedMeetups = <<>>
  /\ attendingMeetups = <<>>

NoResponse == [site |-> "none", result |-> [outcome |-> "none", output |-> <<>>]]

CalIdle ==
  /\ calMeetups = <<>>
  /\ calInflight = 0
  /\ overtaken = 0
  /\ handled = NoResponse

NoMeetup == [id |-> 0, status |-> Undefined, maxAttendees |-> NaN, attendees |-> <<>>, host |-> NoAccount]
NoRequery == [site |-> "none", at |-> 0, resolvedAt |-> 0]

\* useState initial values of MeetupDetails and CreateMeetup
SiteIdle ==
  /\ detailsMeetup = NoMeetup
  /\ isUserRegistered = FALSE
  /\ canRegister = FALSE
  /\ isRegistering = FALSE
  /\ isUnregistering = FALSE
  /\ isSubmitting = FALSE
  /\ route = "/app"
  /\ runs = <<>>
  /\ requery = NoRequery

NoCall == [query |-> <<>>, key |-> 0]
NoOptions == [query |-> <<>>, key |-> 0]
NoneApplied == [key |-> 0, keystrokes |-> 0]

\* useState initial values of Home, and the parsers before they ran
NoLocation == <<>>
NoId == -1
NotParsed == <<>>

GeoIdle ==
  /\ homeMeetups = <<>>
  /\ userLocation = NoLocation
  /\ locationError = FALSE
  /\ inPersonMeetups = <<>>
  /\ closestMeetupId = NoId
  /\ mapMarkers = <<>>
  /\ locationText = <<>>
  /\ parsed = NotParsed

NoRecord == <<>>
NoField == <<>>
NotDecoded == <<>>

NoCountdown == <<>>

\* showEndConfirm.meetupId when it is null
NoMeetupId == -1
\* submitted before the first call of handleSubmit
NoForm == <<>>

\* { meetupId: null, totalPaid: 0 }
EndConfirmClosed == [meetupId |-> NoMeetupId, totalPaid |-> 0]

EndIdle ==
  /\ showEndConfirm = EndConfirmClosed
  /\ endTxs = <<>>

FormIdle == submitted = NoForm

BucketIdle ==
  /\ calendarMeetups = <<>>
  /\ selectedDate = 0
  /\ dotDays = {}
  /\ filteredMeetups = <<>>

CardIdle ==
  /\ cardTimestamp = 0
  /\ cardReads = <<>>
  /\ countdown = NoCountdown
  /\ BucketIdle

DecodeIdle ==
  /\ rawMeetup = NoRecord
  /\ decodings = NotDecoded
  /\ encodedText = <<>>
  /\ decodedForms = NotDecoded
  /\ numericField = NoField
  /\ decodedNumber = NotDecoded

\* useState / useRef initial values of the address search of CreateMeetup
SuggestIdle ==
  /\ addressText = <<>>
  /\ keystrokes = 0
  /\ debounce = NoCall
  /\ requests = {}
  /\ abortControllerRef = 0
  /\ addressOptions = NoOptions
  /\ isAddressDropdownOpen = FALSE
  /\ applied = NoneApplied

EnvIdle ==
  /\ now = Epoch0
  /\ activeAccount = NoAccount
  /\ apiReady = FALSE

\* ------------------------------------------- contract output of the runs
\* number.toString() and the thousands-grouped form the chain client returns
RECURSIVE Digits(_)
Digits(n) == IF n < 10 THEN <<48 + n>> ELSE Digits(n \div 10) \o <<48 + (n % 10)>>

RECURSIVE GroupDigits(_)
GroupDigits(d) ==
  IF Len(d) <= 3 THEN d
  ELSE GroupDigits(SubSeq(d, 1, Len(d) - 3)) \o <<Comma>> \o SubSeq(d, Len(d) - 2, Len(d))

Grouped(n) == JStr(GroupDigits(Digits(n)))

\* one raw record of get_all_meetups, well formed, as the deployed contract returns it
RawMeetup(host, attendees, timestamp, timezone, status) ==
  [title |-> JArr(<<84, 101, 97>>),
   description |-> JStr(<<48, 120, 54, 56, 54, 57>>),
   location |-> JStr(<<53, 49, 46, 53, 44, 45, 48, 46, 48, 57>>),
   location_type |-> JEnum(InPerson),
   locationType |-> Undefined,
   loc_type |-> Undefined,
   timestamp |-> timestamp,
   price |-> Grouped(1500),
   maxAttendees |-> JStr(<<50>>),
   attendees |-> attendees,
   status |-> status,
   totalPaid |-> JStr(<<48>>),
   host |-> JStr(host),
   timezone |-> timezone]

\* the records the contract may hold: three well formed ones and three with
\* one field of a shape the decoder does not expect
WellFormedRecords ==
  { <<1, RawMeetup(Alice5, JArr(<<Bob5>>), Grouped(Epoch0 + 1000), JArr(UTC), JStr(Planned))>>,
    <<2, RawMeetup(Bob5, JArr(<<Alice1, Carol5>>), Grouped(Epoch0 + 1500 - 9 * MsPerHour),
                   JStr(HexPrefix \o <<52, 97, 54, 49, 55, 48, 54, 49, 54, 101>>), JStr(Ongoing))>>,
    <<6, RawMeetup(Carol5, JArr(<<>>), Grouped(Epoch0 + 500), Undefined, JStr(Planned))>> }

MalformedRecords ==
  { <<3, RawMeetup(Alice1, JArr(<<>>), JNum(Epoch0 + 1000), JArr(UTC), JStr(Planned))>>,
    <<4, [RawMeetup(Alice5, JArr(<<>>), Grouped(Epoch0 + 1000), JArr(UTC), JStr(Planned))
            EXCEPT !.description = JStr(HexPrefix)]>>,
    <<5, RawMeetup(Alice5, Undefined, Grouped(Epoch0 + 1000), JArr(UTC), JStr(Planned))>> }

RawRecords == WellFormedRecords \cup MalformedRecords

\* the batches get_all_meetups can return: up to MaxBatch distinct records
BatchesOf(records) ==
  UNION { { b \in [1..n -> records] : \A i, j \in 1..n : i # j => b[i][1] # b[j][1] }
          : n \in 0..MaxBatch }

\* the responses of contractQuery + decodeOutput: the call throws, the
\* contract reports isError, the output is null, or the output is a batch
ResultsOf(records) ==
  { [outcome |-> o, output |-> <<>>] : o \in {"throws", "isError", "null"} }
    \cup { [outcome |-> "batch", output |-> b] : b \in BatchesOf(records) }

QueryResults == ResultsOf(RawRecords)
WellFormedResults == ResultsOf(WellFormedRecords)

\* DecodeAll of every response, computed once
DecodedOutput == [r \in QueryResults |-> DecodeAll(r.output)]

\* ---------------------------------------------------------- MeetupDetails
\* a < b of two numbers, false when either is NaN
JsLt(a, b) == ~IsNaN(a) /\ ~IsNaN(b) /\ a < b

\* activeAccount && meetup.attendees.some(...), as a truth value
IsUserRegistered(account, m) ==
  account # NoAccount /\ SomeAttendee(m.attendees, account)

canRegister_noHostCheck(account, m) ==
  /\ account # NoAccount
  /\ m.status = JStr(Planned)
  /\ JsLt(Len(m.attendees), m.maxAttendees)
  /\ ~IsUserRegistered(account, m)

\* activeAccount && status === 'Planned' && attendees.length < maxAttendees &&
\* !isUserRegistered && host key !== viewer key, as a truth value
CanRegister(account, m) ==
  /\ account # NoAccount
  /\ m.status = JStr(Planned)
  /\ JsLt(Len(m.attendees), m.maxAttendees)
  /\ ~IsUserRegistered(account, m)
  /\ ~SameIdentity(m.host, account)

\* the object fetchMeetupDetails builds from the output of get_meetup
DecodeDetails(meetupId, meetupData) ==
  IF \/ ~ParseGrouped(meetupData.timestamp).ok
     \/ meetupData.attendees.t # "array"
     \/ meetupData.host.t = "undefined"
  THEN [ok |-> FALSE, v |-> NoMeetup]
  ELSE [ok |-> TRUE,
        v |-> [id |-> meetupId,
               status |-> meetupData.status,
               maxAttendees |-> ParseLoose(meetupData.maxAttendees),
               attendees |-> meetupData.attendees.v,
               host |-> meetupData.host.v]]

\* the render of MeetupDetails; without a meetup it returns before the predicates
RenderDetails(account, m) ==
  IF m = NoMeetup
  THEN isUserRegistered' = FALSE /\ canRegister' = FALSE
  ELSE /\ isUserRegistered' = IsUserRegistered(account, m)
       /\ canRegister' = CanRegister(account, m)

\* -------------------------------------------------- AppPage and MyMeetups
Accounts == {Alice1, Bob1}

\* the render of AppPage that a state change schedules: a fresh currentDate
\* and the active view computed from it
Render(meetups) ==
  /\ currentDate' = now
  /\ activeMeetups' = ActiveMeetups(meetups, now, localZone)

\* the effect of MyMeetups ([filterMyMeetups, fetchReputation]) after a render
\* in which activeAccount or the meetups prop changed
MyMeetupsEffect(tab, account, meetups, hosted, attending) ==
  IF tab = "my-meetups"
  THEN LET r == filterMyMeetups(account, meetups, hosted, attending)
       IN hostedMeetups' = r.hosted /\ attendingMeetups' = r.attending
  ELSE hostedMeetups' = <<>> /\ attendingMeetups' = <<>>

\* fetchMeetups up to the await of contractQuery
FetchStart(origin, ready) ==
  /\ ready
  /\ Len(inflight) < MaxInflight
  /\ inflight' = Append(inflight, origin)
  /\ fetchIsLoading' = TRUE

\* the effect [contract, api] of AppPage once the chain connection is up
Connect ==
  /\ ~apiReady
  /\ apiReady' = TRUE
  /\ FetchStart("mount", TRUE)
  /\ Render(allMeetups)
  /\ toasts' = <<>>
  /\ handled' = NoResponse
  /\ UNCHANGED <<localZone, now, activeAccount, currentTab, allMeetups, myVars, evalVars, suggestVars, geoVars, decodeVars, cardVars, endVars, formVars, calVars, detailVars, siteVars>>

\* handleViewChange('home'): Back to Home of MyMeetups, or a card's way back
ViewHome ==
  /\ currentTab' = "home"
  /\ IF apiReady
     THEN FetchStart("home", apiReady)
     ELSE UNCHANGED <<inflight, fetchIsLoading>>
  /\ Render(allMeetups)
  /\ MyMeetupsEffect("home", activeAccount, allMeetups, hostedMeetups, attendingMeetups)
  /\ toasts' = <<>>
  /\ UNCHANGED <<envVars, allMeetups, evalVars, suggestVars, geoVars, decodeVars, cardVars, endVars, formVars, calVars, detailVars, siteVars, handled>>

\* handleTabChange(tab) from the top bar
TabChange(tab) ==
  /\ currentTab' = tab
  /\ Render(allMeetups)
  /\ IF tab = currentTab
     THEN UNCHANGED myVars
     ELSE MyMeetupsEffect(tab, activeAccount, allMeetups, <<>>, <<>>)
  /\ toasts' = <<>>
  /\ UNCHANGED <<envVars, allMeetups, fetchIsLoading, inflight, evalVars, suggestVars, geoVars, decodeVars, cardVars, endVars, formVars, calVars, detailVars, siteVars, handled>>

\* fetchMeetups from the response of the i-th outstanding query to its end
FetchComplete(i, result) ==
  /\ i \in 1..Len(inflight)
  /\ inflight' = SubSeq(inflight, 1, i - 1) \o SubSeq(inflight, i + 1, Len(inflight))
  /\ overtaken' = IF i > overtaken THEN i - 1 ELSE overtaken - 1
  /\ LET decoded == DecodedOutput[result]
         failed == result.outcome \in {"throws", "isError"} \/ ~decoded.ok
     IN /\ allMeetups' = IF failed THEN <<>> ELSE decoded.v
        /\ toasts' = IF failed THEN <<"Error fetching meetups. Try again">> ELSE <<>>
  /\ fetchIsLoading' = FALSE
  /\ Render(allMeetups')
  /\ MyMeetupsEffect(currentTab, activeAccount, allMeetups', hostedMeetups, attendingMeetups)
  /\ UNCHANGED <<envVars, currentTab, evalVars, suggestVars, geoVars, decodeVars, cardVars, endVars, formVars, calMeetups, calInflight,
                 detailVars, siteVars>>

\* the wallet connects, switches account or disconnects: every mounted
\* component renders with the new activeAccount
SetAccount(account) ==
  /\ account # activeAccount
  /\ activeAccount' = account
  /\ Render(allMeetups)
  /\ MyMeetupsEffect(currentTab, account, allMeetups, hostedMeetups, attendingMeetups)
  /\ RenderDetails(account, detailsMeetup)
  /\ toasts' = <<>>
  /\ UNCHANGED <<localZone, now, apiReady, currentTab, allMeetups, fetchIsLoading, inflight,
                 evalVars, suggestVars, geoVars, decodeVars, cardVars, endVars, formVars, calVars, detailsMeetup, siteVars, handled>>

\* time passes; nothing of AppPage is rendered again by the passing of time
Tick ==
  /\ now < Epoch0 + MaxTicks * TickMs
  /\ now' = now + TickMs
  /\ UNCHANGED <<localZone, activeAccount, apiReady, pageVars, myVars, evalVars, suggestVars, geoVars, decodeVars, cardVars, endVars, formVars, calVars, detailVars, siteVars, handled>>

\* the chain connection object is replaced (reconnect, chain switch): the
\* effect [contract, api] of AppPage runs again
Reconnect ==
  /\ FetchStart("mount", apiReady)
  /\ Render(allMeetups)
  /\ toasts' = <<>>
  /\ handled' = NoResponse
  /\ UNCHANGED <<envVars, currentTab, allMeetups, myVars, evalVars, suggestVars, geoVars, decodeVars, cardVars, endVars, formVars, calVars, detailVars, siteVars>>

InitPage ==
  /\ localZone \in ValidZones
  /\ EnvIdle
  /\ PageIdle
  /\ CalIdle
  /\ EvalIdle
  /\ SuggestIdle
  /\ GeoIdle
  /\ DecodeIdle
  /\ CardIdle
  /\ EndIdle
  /\ FormIdle
  /\ SiteIdle

NextPage ==
  \/ Connect
  \/ Reconnect
  \/ ViewHome
  \/ \E tab \in {"home", "calendar", "my-meetups"} : TabChange(tab)
  \/ \E i \in 1..MaxInflight, result \in WellFormedResults :
       FetchComplete(i, result) /\ UNCHANGED handled
  \/ \E account \in Accounts \cup {NoAccount} : SetAccount(account)
  \/ Tick

SpecPage == InitPage /\ [][NextPage]_vars

\* records of a collection, as a set
Records(meetups) == {meetups[i] : i \in 1..Len(meetups)}

\* Home or MeetupCalendar is on screen with the active view
ActiveViewShown == currentTab \in {"home", "calendar"} /\ ~fetchIsLoading

\* C7 (as claimed): at no time does the displayed active view contain a
\* record for which hasMeetupPassed(r, current time) is true.
C7_NeverShowsPassed ==
  ActiveViewShown =>
    \A m \in Records(activeMeetups) : ~hasMeetupPassed(m, now, localZone)

\* C7 (amended): the active view is exactly the records of the fetched
\* collection that had not passed at the instant of AppPage's latest render.
C7_ActiveAtRender ==
  /\ \A m \in Records(allMeetups) :
       m \in Records(activeMeetups) <=> ~hasMeetupPassed(m, currentDate, localZone)
  /\ Records(activeMeetups) \subseteq Records(allMeetups)
  /\ currentDate <= now
C7_Witness ==
  /\ ActiveViewShown
  /\ Len(activeMeetups) = 1
  /\ Len(allMeetups) = 2
  /\ currentDate > Epoch0

\* C8: with MyMeetups mounted and a wallet connected, hostedMeetups is
\* exactly the records of the current collection hosted by the viewer.
C8_HostedExact ==
  (currentTab = "my-meetups" /\ activeAccount # NoAccount) =>
    hostedMeetups = SelectSeq(allMeetups, LAMBDA m : SameIdentity(m.host, activeAccount))

\* ------------------- the collection queries of AppPage and MeetupCalendar
\* the record MeetupCalendar keeps of one raw record (its own map callback)
CalDecodeMeetup(id, meetup) ==
  LET timestamp == ParseGrouped(meetup.timestamp)
  IN IF ~timestamp.ok THEN [ok |-> FALSE, v |-> <<>>]
     ELSE [ok |-> TRUE, v |-> <<
            [id |-> id,
             title |-> meetup.title,
             location |-> meetup.location,
             locationType |-> IF meetup.locationType = JStr(Online) THEN Online ELSE InPerson,
             timestamp |-> timestamp.v]>>]

RECURSIVE CalDecodeAll(_)
CalDecodeAll(batch) ==
  IF batch = <<>> THEN [ok |-> TRUE, v |-> <<>>]
  ELSE LET first == CalDecodeMeetup(Head(batch)[1], Head(batch)[2])
           rest == CalDecodeAll(Tail(batch))
       IN IF first.ok /\ rest.ok THEN [ok |-> TRUE, v |-> first.v \o rest.v]
          ELSE [ok |-> FALSE, v |-> <<>>]

CalDecodedOutput == [r \in QueryResults |-> CalDecodeAll(r.output)]

\* MeetupCalendar: the effect [contract, api] up to the await of contractQuery;
\* it runs at mount and whenever the connection object is replaced
CalFetchStart ==
  /\ apiReady
  /\ calInflight < MaxInflight
  /\ calInflight' = calInflight + 1
  /\ toasts' = <<>>
  /\ handled' = NoResponse
  /\ UNCHANGED <<envVars, currentTab, allMeetups, fetchIsLoading, inflight, currentDate,
                 activeMeetups, myVars, evalVars, suggestVars, geoVars, decodeVars, cardVars, endVars, formVars, calMeetups, overtaken,
                 detailVars, siteVars>>

\* MeetupCalendar.fetchMeetups from the response to its end
CalFetchComplete(result) ==
  /\ calInflight > 0
  /\ calInflight' = calInflight - 1
  /\ LET decoded == CalDecodedOutput[result]
         failed == result.outcome \in {"throws", "isError"} \/ ~decoded.ok
     IN /\ calMeetups' = IF failed THEN calMeetups ELSE decoded.v
        /\ toasts' = IF failed THEN <<"Error loading calendar events">> ELSE <<>>
  /\ handled' = [site |-> "MeetupCalendar", result |-> result]
  /\ UNCHANGED <<envVars, currentTab, allMeetups, fetchIsLoading, inflight, currentDate,
                 activeMeetups, myVars, evalVars, suggestVars, geoVars, decodeVars, cardVars, endVars, formVars, overtaken,
                 detailVars, siteVars>>

NextFetch ==
  \/ Connect
  \/ Reconnect
  \/ \E i \in 1..MaxInflight, result \in QueryResults :
       FetchComplete(i, result) /\ handled' = [site |-> "AppPage", result |-> result]
  \/ CalFetchStart
  \/ \E result \in QueryResults : CalFetchComplete(result)

InitFetch ==
  /\ localZone = UTC
  /\ EnvIdle
  /\ PageIdle
  /\ CalIdle
  /\ EvalIdle
  /\ SuggestIdle
  /\ GeoIdle
  /\ DecodeIdle
  /\ CardIdle
  /\ EndIdle
  /\ FormIdle
  /\ SiteIdle

SpecFetch == InitFetch /\ [][NextFetch]_vars

\* the collection the component that handled the last response holds
HandledCollection == IF handled.site = "AppPage" THEN allMeetups ELSE calMeetups

\* C3: a failed collection query leaves the collection empty and raises
\* exactly one error notification; a null output leaves it empty with none.
C3_FailureResetsCollection ==
  /\ handled.result.outcome \in {"throws", "isError"} =>
       (HandledCollection = <<>> /\ Len(toasts) = 1)
  /\ handled.result.outcome = "null" =>
       (HandledCollection = <<>> /\ toasts = <<>>)

\* C4: a record with a field of an unexpected shape does not abort the
\* fetch: every other record of the batch is stored.
C4_OtherRecordsStored ==
  (handled.site = "AppPage" /\ handled.result.outcome = "batch") =>
    \A i \in 1..Len(handled.result.output) :
      DecodeMeetup(handled.result.output[i][1], handled.result.output[i][2]).ok
        => \E m \in Records(allMeetups) : m.id = handled.result.output[i][1]

\* ------------------------------------------------ temporal evaluator runs
EvalTimestamps == {NaN, Epoch0, Epoch0 + 500, Epoch0 + 1000, Epoch0 + 1999,
                   Epoch0 - 9 * MsPerHour + 1000, Epoch0 + 5 * MsPerHour + 1000,
                   Epoch0 - 14 * MsPerHour + 1000}
EvalZones == {UTC, Japan, EST, NA, EmptyStr}
EvalDates == {Epoch0 + k * TickMs : k \in 0..MaxTicks} \cup {Epoch0 + 1999}

EvalMeetups ==
  [id : {1}, timestamp : EvalTimestamps, timezone : EvalZones, locationType : {Online, InPerson}]

InitEval ==
  /\ localZone \in ValidZones
  /\ now = Epoch0 /\ activeAccount = NoAccount /\ apiReady = FALSE
  /\ PageIdle
  /\ CalIdle
  /\ SiteIdle
  /\ SuggestIdle
  /\ GeoIdle
  /\ DecodeIdle
  /\ CardIdle
  /\ EndIdle
  /\ FormIdle
  /\ evalMeetup \in EvalMeetups
  /\ evalDate \in EvalDates
  /\ evalDone = FALSE
  /\ evalPassed = FALSE
  /\ evalStarted = FALSE

\* MyMeetups render of one card: isPast and hasStarted of the same record
EvaluateCard ==
  /\ ~evalDone
  /\ evalDone' = TRUE
  /\ evalPassed' = hasMeetupPassed(evalMeetup, evalDate, localZone)
  /\ evalStarted' = hasMeetupStarted(evalMeetup, evalDate, localZone)
  /\ UNCHANGED <<envVars, pageVars, myVars, calVars, handled, detailVars, siteVars, suggestVars, geoVars, decodeVars, cardVars, endVars, formVars, evalMeetup, evalDate>>

\* the next render, with a later reference instant
NextRender ==
  /\ evalDone
  /\ \E d \in EvalDates : d > evalDate /\ evalDate' = d
  /\ evalDone' = FALSE
  /\ evalPassed' = FALSE
  /\ evalStarted' = FALSE
  /\ UNCHANGED <<envVars, pageVars, myVars, calVars, handled, detailVars, siteVars, suggestVars, geoVars, decodeVars, cardVars, endVars, formVars, evalMeetup>>

NextEval == EvaluateCard \/ NextRender
SpecEval == InitEval /\ [][NextEval]_vars

\* C5: at the derived local-reinterpreted start time hasMeetupPassed is false
\* and hasMeetupStarted is true; at every other instant the two agree.
C5_BoundaryOperator ==
  evalDone =>
    LET d == MeetupLocalTime(evalMeetup, localZone)
    IN IF d.ok /\ d.v = evalDate
       THEN evalPassed = FALSE /\ evalStarted = TRUE
       ELSE evalPassed = evalStarted
C5_Witness ==
  /\ evalDone /\ evalPassed = FALSE /\ evalStarted = TRUE
  /\ evalMeetup.timezone = Japan /\ localZone = EST

\* C6: for an invalid zone name or a NaN timestamp both predicates return
\* false (the evaluation completes, nothing is thrown past it).
C6_InvalidInputFalse ==
  (evalDone /\
     (ZoneOrUTC(evalMeetup.timezone) \notin ValidZones \/ IsNaN(evalMeetup.timestamp)))
    => (evalPassed = FALSE /\ evalStarted = FALSE)
C6_Witness ==
  /\ evalDone /\ evalPassed = FALSE /\ evalStarted = FALSE
  /\ evalMeetup.timezone = NA /\ evalMeetup.timestamp < evalDate /\ ~IsNaN(evalMeetup.timestamp)

\* ------------------------------------------------- MeetupDetails runs
\* the outputs get_meetup can return for the meetup on screen
DetailRecords ==
  { [RawMeetup(host, JArr(attendees), Grouped(Epoch0 + 1000), JArr(UTC), JStr(status))
       EXCEPT !.maxAttendees = maxAttendees] :
      host \in {Alice5, Bob5},
      attendees \in {<<>>, <<Bob5>>, <<Alice5, Carol5>>},
      maxAttendees \in {JStr(<<49>>), JStr(<<50>>), Undefined},
      status \in {Planned, Ongoing, Cancelled} }

DetailResults ==
  { [outcome |-> o, output |-> <<>>] : o \in {"throws", "isError", "null"} }
    \cup { [outcome |-> "record", output |-> <<r>>] : r \in DetailRecords }

\* fetchMeetupDetails from the response of get_meetup to its end
FetchMeetupDetailsEnd(result) ==
  LET decoded == IF result.outcome = "record"
                 THEN DecodeDetails(1, result.output[1])
                 ELSE [ok |-> FALSE, v |-> NoMeetup]
  IN /\ detailsMeetup' = decoded.v
     /\ toasts' = IF decoded.ok THEN <<>>
                  ELSE <<"Error while fetching meetup details. Try again">>
     /\ RenderDetails(activeAccount, decoded.v)

\* the query of the effect [fetchMeetupDetails] of MeetupDetails answers
DetailsLoaded(result) ==
  /\ route = "/meetup/1"
  /\ apiReady
  /\ FetchMeetupDetailsEnd(result)
  /\ UNCHANGED <<envVars, currentTab, allMeetups, fetchIsLoading, inflight, currentDate,
                 activeMeetups, myVars, evalVars, suggestVars, geoVars, decodeVars, cardVars, endVars, formVars, calVars, handled, siteVars>>

\* the router shows MeetupDetails, or AppPage on the my-meetups tab with its
\* first query outstanding; the chain connection is up
InitViews ==
  /\ localZone = UTC
  /\ now = Epoch0
  /\ activeAccount = NoAccount
  /\ apiReady = TRUE
  /\ route \in {"/app", "/meetup/1"}
  /\ currentTab = IF route = "/app" THEN "my-meetups" ELSE "home"
  /\ allMeetups = <<>>
  /\ fetchIsLoading = (route = "/app")
  /\ inflight = IF route = "/app" THEN <<"mount">> ELSE <<>>
  /\ toasts = <<>>
  /\ currentDate = Epoch0
  /\ activeMeetups = <<>>
  /\ hostedMeetups = <<>>
  /\ attendingMeetups = <<>>
  /\ CalIdle
  /\ EvalIdle
  /\ SuggestIdle
  /\ GeoIdle
  /\ DecodeIdle
  /\ CardIdle
  /\ EndIdle
  /\ FormIdle
  /\ detailsMeetup = NoMeetup
  /\ isUserRegistered = FALSE
  /\ canRegister = FALSE
  /\ isRegistering = FALSE
  /\ isUnregistering = FALSE
  /\ isSubmitting = FALSE
  /\ runs = <<>>
  /\ requery = NoRequery

NextViews ==
  \/ \E result \in DetailResults : DetailsLoaded(result)
  \/ \E account \in Accounts \cup {NoAccount} : SetAccount(account)
  \/ \E i \in 1..MaxInflight, result \in WellFormedResults :
       FetchComplete(i, result) /\ UNCHANGED handled
  \/ route = "/app" /\ Reconnect

SpecViews == InitViews /\ [][NextViews]_vars

\* the raw public key an address text encodes
PublicKey(address) == address[2]

\* C1: canRegister is true only when an account is connected, the status is
\* Planned, the attendee count is strictly below maxAttendees, the viewer's
\* public key is not among the attendees' and differs from the host's; it is
\* false whenever the viewer is the host.
C1_CanRegisterOnlyWhen ==
  /\ canRegister =>
       /\ activeAccount # NoAccount
       /\ detailsMeetup.status = JStr(Planned)
       /\ detailsMeetup.maxAttendees # NaN
       /\ Len(detailsMeetup.attendees) < detailsMeetup.maxAttendees
       /\ \A i \in 1..Len(detailsMeetup.attendees) :
            PublicKey(detailsMeetup.attendees[i]) # PublicKey(activeAccount)
       /\ PublicKey(detailsMeetup.host) # PublicKey(activeAccount)
  /\ (/\ activeAccount # NoAccount
      /\ detailsMeetup # NoMeetup
      /\ PublicKey(detailsMeetup.host) = PublicKey(activeAccount)) => ~canRegister

\* the viewer is the host under another encoding, the meetup is Planned, has
\* room and does not list the viewer: only the host conjunct denies
C1_Witness ==
  /\ activeAccount = Alice1
  /\ detailsMeetup.host = Alice5
  /\ detailsMeetup.status = JStr(Planned)
  /\ detailsMeetup.attendees = <<Bob5>>
  /\ detailsMeetup.maxAttendees = 2
  /\ ~canRegister

\* C9: a record listing an attendee whose address decodes to the viewer's
\* public key is treated as attended by the viewer whatever the encodings
\* (isUserRegistered in MeetupDetails, attendingMeetups in MyMeetups), and
\* addresses of different keys are never treated as equal.
C9_AttendingByPublicKey ==
  /\ (activeAccount # NoAccount /\ detailsMeetup # NoMeetup) =>
       (isUserRegistered <=>
          \E i \in 1..Len(detailsMeetup.attendees) :
            PublicKey(detailsMeetup.attendees[i]) = PublicKey(activeAccount))
  /\ activeAccount # NoAccount =>
       \A m \in Records(allMeetups) :
          m \in Records(attendingMeetups) <=>
            \E i \in 1..Len(m.attendees) :
              PublicKey(m.attendees[i]) = PublicKey(activeAccount)

\* the viewer is connected under one encoding and listed under another
C9_Witness ==
  /\ activeAccount = Bob1
  /\ detailsMeetup.attendees = <<Bob5>>
  /\ isUserRegistered

\* ------------------------------------------------- mutating action sites
\* seq without its i-th element
RemoveAt(seq, i) == SubSeq(seq, 1, i - 1) \o SubSeq(seq, i + 1, Len(seq))

\* a handler invocation suspended at an await
Run(site, phase, resolvedAt) == [site |-> site, phase |-> phase, resolvedAt |-> resolvedAt]

DetailSites == {"register", "unregister"}
MyMeetupsSites == {"start", "cancel", "end"}

\* MeetupDetails.registerForMeetup up to the await of contractTx; the
\* Register button is rendered when canRegister and disabled while isRegistering
registerForMeetup ==
  /\ route = "/meetup/1"
  /\ activeAccount # NoAccount /\ canRegister /\ ~isRegistering
  /\ apiReady /\ detailsMeetup # NoMeetup
  /\ Len(runs) < MaxRuns
  /\ isRegistering' = TRUE
  /\ runs' = Append(runs, Run("register", "tx", 0))
  /\ toasts' = <<>>
  /\ UNCHANGED <<envVars, currentTab, allMeetups, fetchIsLoading, inflight, currentDate,
                 activeMeetups, myVars, evalVars, suggestVars, geoVars, decodeVars, cardVars, endVars, formVars, calVars, handled, detailVars,
                 isUnregistering, isSubmitting, route, requery>>

\* MeetupDetails.unregisterFromMeetup up to the await of contractTx; the
\* Unregister button is rendered for a registered viewer of a Planned meetup
\* and disabled while isUnregistering
unregisterFromMeetup ==
  /\ route = "/meetup/1"
  /\ activeAccount # NoAccount /\ isUserRegistered /\ ~isUnregistering
  /\ detailsMeetup.status = JStr(Planned)
  /\ apiReady /\ detailsMeetup # NoMeetup
  /\ Len(runs) < MaxRuns
  /\ isUnregistering' = TRUE
  /\ runs' = Append(runs, Run("unregister", "tx", 0))
  /\ toasts' = <<>>
  /\ UNCHANGED <<envVars, currentTab, allMeetups, fetchIsLoading, inflight, currentDate,
                 activeMeetups, myVars, evalVars, suggestVars, geoVars, decodeVars, cardVars, endVars, formVars, calVars, handled, detailVars,
                 isRegistering, isSubmitting, route, requery>>

\* CreateMeetup.handleSubmit up to the await of contractTx, or to its end
\* when the wallet is missing or the form does not validate; the form
\* controls are disabled while isSubmitting
SubmitSteps(connected, valid) ==
  /\ route = "/create"
  /\ ~isSubmitting
  /\ Len(runs) < MaxRuns
  /\ IF ~connected
     THEN /\ toasts' = <<"Please connect your wallet.">>
          /\ UNCHANGED <<isSubmitting, runs>>
     ELSE IF ~valid
     THEN /\ toasts' = <<"Failed to create meetup">>
          /\ UNCHANGED <<isSubmitting, runs>>
     ELSE /\ isSubmitting' = TRUE
          /\ runs' = Append(runs, Run("create", "tx", 0))
          /\ toasts' = <<>>
  /\ UNCHANGED <<envVars, currentTab, allMeetups, fetchIsLoading, inflight, currentDate,
                 activeMeetups, myVars, evalVars, suggestVars, geoVars, decodeVars, cardVars, endVars, calVars, handled, detailVars,
                 isRegistering, isUnregistering, route, requery>>

\* handleSubmit of a connected wallet with its signer, whatever the form holds
handleSubmit(valid) ==
  /\ SubmitSteps(apiReady /\ activeAccount # NoAccount, valid)
  /\ UNCHANGED formVars

\* a hosted card of MyMeetups shows the buttons of a Planned meetup
HostedPlanned(m) == m.status = JStr(Planned)

\* MyMeetups.updateStatus(meetupId, 'Ongoing') up to the await of contractTx;
\* Start Meetup is rendered on a Planned hosted card once the meetup has started
updateStatus ==
  /\ route = "/app" /\ currentTab = "my-meetups"
  /\ \E i \in 1..Len(hostedMeetups) :
       HostedPlanned(hostedMeetups[i]) /\ hasMeetupStarted(hostedMeetups[i], currentDate, localZone)
  /\ apiReady /\ activeAccount # NoAccount
  /\ Len(runs) < MaxRuns
  /\ runs' = Append(runs, Run("start", "tx", 0))
  /\ toasts' = <<>>
  /\ UNCHANGED <<envVars, currentTab, allMeetups, fetchIsLoading, inflight, currentDate,
                 activeMeetups, myVars, evalVars, suggestVars, geoVars, decodeVars, cardVars, endVars, formVars, calVars, handled, detailVars,
                 isRegistering, isUnregistering, isSubmitting, route, requery>>

cancelMeetup_optimistic ==
  /\ route = "/app" /\ currentTab = "my-meetups"
  /\ \E i \in 1..Len(hostedMeetups) : HostedPlanned(hostedMeetups[i])
  /\ apiReady /\ activeAccount # NoAccount
  /\ Len(runs) < MaxRuns
  /\ runs' = Append(runs, Run("cancel", "tx", 0))
  /\ toasts' = <<>>
  /\ hostedMeetups' = SelectSeq(hostedMeetups, LAMBDA m : ~HostedPlanned(m))
  /\ UNCHANGED <<envVars, currentTab, allMeetups, fetchIsLoading, inflight, currentDate,
                 activeMeetups, attendingMeetups, evalVars, suggestVars, geoVars, decodeVars, cardVars, endVars, formVars, calVars, handled, detailVars,
                 isRegistering, isUnregistering, isSubmitting, route, requery>>

\* MyMeetups.cancelMeetup(meetupId) up to the await of contractTx; Cancel is
\* rendered on every Planned hosted card
cancelMeetup ==
  /\ route = "/app" /\ currentTab = "my-meetups"
  /\ \E i \in 1..Len(hostedMeetups) : HostedPlanned(hostedMeetups[i])
  /\ apiReady /\ activeAccount # NoAccount
  /\ Len(runs) < MaxRuns
  /\ runs' = Append(runs, Run("cancel", "tx", 0))
  /\ toasts' = <<>>
  /\ UNCHANGED <<envVars, currentTab, allMeetups, fetchIsLoading, inflight, currentDate,
                 activeMeetups, myVars, evalVars, suggestVars, geoVars, decodeVars, cardVars, endVars, formVars, calVars, handled, detailVars,
                 isRegistering, isUnregistering, isSubmitting, route, requery>>

\* the finally block of the handler of a site
Finally(site) ==
  /\ isRegistering' = IF site = "register" THEN FALSE ELSE isRegistering
  /\ isUnregistering' = IF site = "unregister" THEN FALSE ELSE isUnregistering
  /\ isSubmitting' = IF site = "create" THEN FALSE ELSE isSubmitting

\* toast.error of the catch block of the handler of a site
ErrorToast(site) ==
  CASE site = "register" -> "Error while registering. Try again"
    [] site = "unregister" -> "Error while unregistering. Try again"
    [] site = "create" -> "Failed to create meetup"
    [] site = "start" -> "Error updating status"
    [] site = "cancel" -> "Error cancelling meetup"
    [] site = "end" -> "Error ending meetup"

\* contractTx of the i-th run rejects: the catch and the finally of its handler
TxRejected(i) ==
  /\ i \in 1..Len(runs)
  /\ runs[i].phase = "tx"
  /\ runs' = RemoveAt(runs, i)
  /\ toasts' = <<ErrorToast(runs[i].site)>>
  /\ Finally(runs[i].site)
  /\ UNCHANGED <<envVars, currentTab, allMeetups, fetchIsLoading, inflight, currentDate,
                 activeMeetups, myVars, evalVars, suggestVars, geoVars, decodeVars, cardVars, endVars, formVars, calVars, handled, detailVars, route, requery>>

\* contractTx of the i-th run resolves, in MeetupDetails or MyMeetups: the
\* success toast, then the await of setTimeout(resolve, 2000)
TxResolved(i) ==
  /\ i \in 1..Len(runs)
  /\ runs[i].phase = "tx"
  /\ runs[i].site \in DetailSites \cup MyMeetupsSites
  /\ runs' = [runs EXCEPT ![i] = Run(runs[i].site, "settle", now)]
  /\ toasts' = <<"Success">>
  /\ UNCHANGED <<envVars, currentTab, allMeetups, fetchIsLoading, inflight, currentDate,
                 activeMeetups, myVars, evalVars, suggestVars, geoVars, decodeVars, cardVars, endVars, formVars, calVars, handled, detailVars,
                 isRegistering, isUnregistering, isSubmitting, route, requery>>

\* contractTx of handleSubmit resolves: the success toast, onRefetch() at
\* once when the parent passed one, then onViewChange('home') and the finally
CreateResolved(i, onRefetch) ==
  /\ i \in 1..Len(runs)
  /\ runs[i] = Run("create", "tx", 0)
  /\ runs' = [runs EXCEPT ![i] = Run("create", "navigate", now)]
  /\ toasts' = <<"Meetup created successfully!">>
  /\ requery' = IF onRefetch
                THEN [site |-> "create", at |-> now, resolvedAt |-> now]
                ELSE requery
  /\ Finally("create")
  /\ UNCHANGED <<envVars, currentTab, allMeetups, fetchIsLoading, inflight, currentDate,
                 activeMeetups, myVars, evalVars, suggestVars, geoVars, decodeVars, cardVars, endVars, formVars, calVars, handled, detailVars, route>>

\* router.push('/app') of the create page completes: CreateMeetup unmounts,
\* AppPage mounts and its effect [contract, api] queries get_all_meetups
AppPageMount(i) ==
  /\ i \in 1..Len(runs)
  /\ runs[i].phase = "navigate"
  /\ route' = "/app"
  /\ runs' = SelectSeq(runs, LAMBDA r : r.site # "create")
  /\ isSubmitting' = FALSE
  /\ currentTab' = "home"
  /\ allMeetups' = <<>>
  /\ inflight' = IF apiReady THEN <<"mount">> ELSE <<>>
  /\ overtaken' = 0
  /\ fetchIsLoading' = apiReady
  /\ Render(<<>>)
  /\ hostedMeetups' = <<>> /\ attendingMeetups' = <<>>
  /\ toasts' = <<>>
  /\ requery' = IF apiReady
                THEN [site |-> "create", at |-> now, resolvedAt |-> runs[i].resolvedAt]
                ELSE requery
  /\ UNCHANGED <<envVars, evalVars, suggestVars, geoVars, decodeVars, cardVars, endVars, formVars, calMeetups, calInflight, handled,
                 detailVars, isRegistering, isUnregistering>>

\* the settle timer of the i-th run fires, in MeetupDetails: fetchMeetupDetails()
\* is called and awaited
DetailsSettled(i) ==
  /\ i \in 1..Len(runs)
  /\ runs[i].phase = "settle" /\ runs[i].site \in DetailSites
  /\ now >= runs[i].resolvedAt + SettleDelayMs
  /\ runs' = [runs EXCEPT ![i] = Run(runs[i].site, "fetch", runs[i].resolvedAt)]
  /\ requery' = [site |-> runs[i].site, at |-> now, resolvedAt |-> runs[i].resolvedAt]
  /\ toasts' = <<>>
  /\ UNCHANGED <<envVars, currentTab, allMeetups, fetchIsLoading, inflight, currentDate,
                 activeMeetups, myVars, evalVars, suggestVars, geoVars, decodeVars, cardVars, endVars, formVars, calVars, handled, detailVars,
                 isRegistering, isUnregistering, isSubmitting, route>>

\* the awaited fetchMeetupDetails of the i-th run answers, then the finally
RequeryLoaded(i, result) ==
  /\ i \in 1..Len(runs)
  /\ runs[i].phase = "fetch"
  /\ FetchMeetupDetailsEnd(result)
  /\ runs' = RemoveAt(runs, i)
  /\ Finally(runs[i].site)
  /\ UNCHANGED <<envVars, currentTab, allMeetups, fetchIsLoading, inflight, currentDate,
                 activeMeetups, myVars, evalVars, suggestVars, geoVars, decodeVars, cardVars, endVars, formVars, calVars, handled, route, requery>>

\* the settle timer of the i-th run fires, in MyMeetups: refetchMeetups()
\* and filterMyMeetups(), neither awaited, and in confirmEndMeetup the
\* closing of the dialog after them
MyMeetupsSettled(i) ==
  /\ i \in 1..Len(runs)
  /\ runs[i].phase = "settle" /\ runs[i].site \in MyMeetupsSites
  /\ now >= runs[i].resolvedAt + SettleDelayMs
  /\ FetchStart(runs[i].site, apiReady)
  /\ LET r == filterMyMeetups(activeAccount, allMeetups, hostedMeetups, attendingMeetups)
     IN hostedMeetups' = r.hosted /\ attendingMeetups' = r.attending
  /\ Render(allMeetups)
  /\ runs' = RemoveAt(runs, i)
  /\ requery' = [site |-> runs[i].site, at |-> now, resolvedAt |-> runs[i].resolvedAt]
  /\ showEndConfirm' = IF runs[i].site = "end" THEN EndConfirmClosed ELSE showEndConfirm
  /\ toasts' = <<>>
  /\ UNCHANGED <<envVars, currentTab, allMeetups, evalVars, suggestVars, geoVars, decodeVars, cardVars, endTxs, formVars, calVars, handled, detailVars,
                 isRegistering, isUnregistering, isSubmitting, route>>

\* what the contract answers while the handlers run
ActionDetailResults ==
  { r \in DetailResults :
      \/ r.outcome = "throws"
      \/ /\ r.outcome = "record"
         /\ r.output[1].host = JStr(Bob5)
         /\ r.output[1].maxAttendees = JStr(<<50>>)
         /\ r.output[1].status = JStr(Planned)
         /\ r.output[1].attendees \in {JArr(<<>>), JArr(<<Alice5, Carol5>>)} }

ActionResults ==
  { r \in WellFormedResults :
      \/ r.outcome = "throws"
      \/ r.outcome = "batch" /\ Len(r.output) = 1 /\ r.output[1][1] = 1 }

\* a connected viewer on one of the three pages: AppPage on the my-meetups
\* tab with the viewer's Planned meetup loaded, MeetupDetails before its first
\* answer, or the create form
InitActions ==
  /\ localZone = UTC
  /\ now = Epoch0
  /\ activeAccount = Alice1
  /\ apiReady = TRUE
  /\ route \in {"/app", "/meetup/1", "/create"}
  /\ currentTab = IF route = "/app" THEN "my-meetups" ELSE "home"
  /\ \E r \in ActionResults :
       /\ r.outcome = "batch"
       /\ allMeetups = IF route = "/app" THEN DecodedOutput[r].v ELSE <<>>
  /\ fetchIsLoading = FALSE
  /\ inflight = <<>>
  /\ toasts = <<>>
  /\ currentDate = Epoch0
  /\ activeMeetups = ActiveMeetups(allMeetups, Epoch0, localZone)
  /\ hostedMeetups = filterMyMeetups(activeAccount, allMeetups, <<>>, <<>>).hosted
  /\ attendingMeetups = filterMyMeetups(activeAccount, allMeetups, <<>>, <<>>).attending
  /\ CalIdle
  /\ EvalIdle
  /\ SuggestIdle
  /\ GeoIdle
  /\ DecodeIdle
  /\ CardIdle
  /\ EndIdle
  /\ FormIdle
  /\ detailsMeetup = NoMeetup
  /\ isUserRegistered = FALSE
  /\ canRegister = FALSE
  /\ isRegistering = FALSE
  /\ isUnregistering = FALSE
  /\ isSubmitting = FALSE
  /\ runs = <<>>
  /\ requery = NoRequery

NextActions ==
  \/ registerForMeetup
  \/ unregisterFromMeetup
  \/ \E valid \in BOOLEAN : handleSubmit(valid)
  \/ updateStatus
  \/ cancelMeetup
  \/ \E i \in 1..MaxRuns : TxRejected(i)
  \/ \E i \in 1..MaxRuns : TxResolved(i)
  \/ \E i \in 1..MaxRuns, onRefetch \in BOOLEAN : CreateResolved(i, onRefetch)
  \/ \E i \in 1..MaxRuns : AppPageMount(i)
  \/ \E i \in 1..MaxRuns : DetailsSettled(i)
  \/ \E i \in 1..MaxRuns, result \in ActionDetailResults : RequeryLoaded(i, result)
  \/ \E i \in 1..MaxRuns : MyMeetupsSettled(i)
  \/ \E result \in ActionDetailResults : DetailsLoaded(result)
  \/ \E i \in 1..MaxInflight, result \in ActionResults :
       FetchComplete(i, result) /\ UNCHANGED handled
  \/ Tick

SpecActions == InitActions /\ [][NextActions]_vars

\* C2: for every mutating action site, at most one contract transaction of
\* that action is outstanding at any time.
C2_OneOutstandingPerSite ==
  \A i, j \in 1..Len(runs) :
    (runs[i].phase = "tx" /\ runs[j].phase = "tx" /\ runs[i].site = runs[j].site) => i = j

\* C10: a re-query issued after a state-changing contract call is issued no
\* earlier than the settle delay after the call resolved.
C10_RequeryAfterSettle ==
  requery # NoRequery => requery.at >= requery.resolvedAt + SettleDelayMs

\* the step starts a handler's transaction, or ends one by a rejection
TxInitiated == \E site \in DetailSites \cup MyMeetupsSites \cup {"create"} :
                 runs' = Append(runs, Run(site, "tx", 0))
TxFailed(i) == i \in 1..Len(runs) /\ runs[i].phase = "tx" /\ runs' = RemoveAt(runs, i)

\* C11: a step that initiates a mutating action, and a step in which its
\* transaction is rejected, leave the meetup record, the fetched collection
\* and the hosted/attending lists as they were; the rejection issues no
\* re-query and surfaces the error toast of that action.
C11_NoOptimisticChange ==
  [][ /\ (TxInitiated \/ \E i \in 1..MaxRuns : TxFailed(i)) =>
           UNCHANGED <<detailsMeetup, allMeetups, hostedMeetups, attendingMeetups>>
      /\ \A i \in 1..MaxRuns : TxFailed(i) =>
           /\ UNCHANGED <<requery, inflight, fetchIsLoading>>
           /\ toasts' = <<ErrorToast(runs[i].site)>> ]_vars

\* a cancel of a hosted meetup was rejected: the error is shown and the lists
\* still hold the meetup
C11_Witness ==
  /\ toasts = <<ErrorToast("cancel")>>
  /\ runs = <<>>
  /\ requery = NoRequery
  /\ Len(hostedMeetups) = 1
  /\ hostedMeetups = allMeetups

\* ------------------------------------------- MyMeetups: ending a meetup
MaxMeetupId == 1

\* a hosted card of MyMeetups shows the buttons of an Ongoing meetup
HostedOngoing(m) == m.status = JStr(Ongoing)

\* {showEndConfirm.meetupId && (...)}: the dialog is rendered for a truthy id
EndDialogShown == showEndConfirm.meetupId # NoMeetupId /\ showEndConfirm.meetupId # 0

\* hostedMeetups.find((m) => m.id === meetupId)?.totalPaid || 0
TotalPaidOf(hosted, meetupId) ==
  LET found == SelectSeq(hosted, LAMBDA m : m.id = meetupId)
  IN IF found = <<>> \/ Falsy(found[1].totalPaid) THEN 0 ELSE found[1].totalPaid.v[1]

\* MyMeetups.updateStatus(meetupId, 'Ended'): End Meetup on the i-th hosted
\* card, rendered when the meetup is Ongoing
updateStatus_Ended(i) ==
  /\ route = "/app" /\ currentTab = "my-meetups"
  /\ i \in 1..Len(hostedMeetups) /\ HostedOngoing(hostedMeetups[i])
  /\ apiReady /\ activeAccount # NoAccount
  /\ showEndConfirm' = [meetupId |-> hostedMeetups[i].id,
                        totalPaid |-> TotalPaidOf(hostedMeetups, hostedMeetups[i].id)]
  /\ showEndConfirm' # showEndConfirm
  /\ toasts' = <<>>
  /\ UNCHANGED <<envVars, currentTab, allMeetups, fetchIsLoading, inflight, currentDate,
                 activeMeetups, myVars, evalVars, suggestVars, geoVars, decodeVars, cardVars,
                 endTxs, formVars, calVars, handled, detailVars, siteVars>>

\* Cancel of the end-confirm dialog
cancelEndConfirm ==
  /\ route = "/app" /\ currentTab = "my-meetups"
  /\ EndDialogShown
  /\ showEndConfirm' = EndConfirmClosed
  /\ toasts' = <<>>
  /\ UNCHANGED <<envVars, currentTab, allMeetups, fetchIsLoading, inflight, currentDate,
                 activeMeetups, myVars, evalVars, suggestVars, geoVars, decodeVars, cardVars,
                 endTxs, formVars, calVars, handled, detailVars, siteVars>>

\* MyMeetups.confirmEndMeetup(showEndConfirm.meetupId) up to the await of
\* contractTx: End Meetup of the end-confirm dialog
confirmEndMeetup ==
  /\ route = "/app" /\ currentTab = "my-meetups"
  /\ EndDialogShown
  /\ apiReady /\ activeAccount # NoAccount
  /\ Len(runs) < MaxRuns /\ Len(endTxs) < MaxRuns
  /\ runs' = Append(runs, Run("end", "tx", 0))
  /\ endTxs' = Append(endTxs, showEndConfirm.meetupId)
  /\ toasts' = <<>>
  /\ UNCHANGED <<envVars, currentTab, allMeetups, fetchIsLoading, inflight, currentDate,
                 activeMeetups, myVars, evalVars, suggestVars, geoVars, decodeVars, cardVars,
                 showEndConfirm, formVars, calVars, handled, detailVars,
                 isRegistering, isUnregistering, isSubmitting, route, requery>>

\* the Ongoing meetups the viewer hosts, under every id the contract assigns
EndRecords ==
  { <<id, RawMeetup(Bob5, JArr(<<Alice5>>), Grouped(Epoch0 - 1000), JArr(UTC), JStr(Ongoing))>> :
      id \in 0..MaxMeetupId }

\* what get_all_meetups answers to the re-query after an ending
EndResults ==
  { r \in WellFormedResults :
      \/ r.outcome = "throws"
      \/ r.outcome = "batch" /\ Len(r.output) = 1 /\ r.output[1][1] = 2 }

\* the host on the my-meetups tab with the hosted Ongoing meetups loaded
InitEnd ==
  /\ localZone = UTC
  /\ now = Epoch0
  /\ activeAccount = Bob1
  /\ apiReady = TRUE
  /\ route = "/app"
  /\ currentTab = "my-meetups"
  /\ \E batch \in BatchesOf(EndRecords) :
       /\ batch # <<>>
       /\ allMeetups = DecodeAll(batch).v
  /\ fetchIsLoading = FALSE
  /\ inflight = <<>>
  /\ toasts = <<>>
  /\ currentDate = Epoch0
  /\ activeMeetups = ActiveMeetups(allMeetups, Epoch0, localZone)
  /\ hostedMeetups = filterMyMeetups(activeAccount, allMeetups, <<>>, <<>>).hosted
  /\ attendingMeetups = filterMyMeetups(activeAccount, allMeetups, <<>>, <<>>).attending
  /\ CalIdle
  /\ EvalIdle
  /\ SuggestIdle
  /\ GeoIdle
  /\ DecodeIdle
  /\ CardIdle
  /\ EndIdle
  /\ FormIdle
  /\ detailsMeetup = NoMeetup
  /\ isUserRegistered = FALSE
  /\ canRegister = FALSE
  /\ isRegistering = FALSE
  /\ isUnregistering = FALSE
  /\ isSubmitting = FALSE
  /\ runs = <<>>
  /\ requery = NoRequery

NextEnd ==
  \/ \E i \in 1..MaxBatch : updateStatus_Ended(i)
  \/ cancelEndConfirm
  \/ confirmEndMeetup
  \/ \E i \in 1..MaxRuns : TxRejected(i)
  \/ \E i \in 1..MaxRuns : TxResolved(i)
  \/ \E i \in 1..MaxRuns : MyMeetupsSettled(i)
  \/ \E i \in 1..MaxInflight, result \in EndResults :
       FetchComplete(i, result) /\ UNCHANGED handled
  \/ Tick

SpecEnd == InitEnd /\ [][NextEnd]_vars

\* C29: End Meetup on the card of a hosted Ongoing meetup, whatever its id
\* (0 included), shows the confirmation dialog for that meetup and sends
\* nothing; an update_state(id, 'Ended') transaction is sent only from the
\* visible dialog, for the meetup the dialog is about.
C29_EndNeedsConfirmation ==
  [][ /\ \A i \in 1..MaxBatch :
           updateStatus_Ended(i) =>
             /\ EndDialogShown'
             /\ showEndConfirm'.meetupId = hostedMeetups[i].id
             /\ endTxs' = endTxs
      /\ endTxs' # endTxs =>
           /\ EndDialogShown
           /\ endTxs' = Append(endTxs, showEndConfirm.meetupId) ]_vars

\* ------------------------------------- address suggestions of CreateMeetup
\* what the user may have in the address input: nothing, two, three or four
\* characters
AddressTexts == {<<>>, <<97, 98>>, <<97, 98, 99>>, <<97, 98, 99, 100>>}
\* option.display_name of a suggestion
DisplayName == <<65, 98, 99>>
\* query.length < 3
MinQueryLength == 3

\* handleAddressChange: setAddress(value), and the debounced
\* fetchAddressSuggestions(value) replaces whatever call the timer held
handleAddressChange(value) ==
  /\ route = "/create"
  /\ keystrokes < MaxKeystrokes
  /\ value # addressText
  /\ addressText' = value
  /\ keystrokes' = keystrokes + 1
  /\ debounce' = [query |-> value, key |-> keystrokes + 1]
  /\ applied' = NoneApplied
  /\ UNCHANGED <<envVars, evalVars, geoVars, decodeVars, cardVars, endVars, formVars, pageVars, myVars, calVars, handled, detailVars, siteVars,
                 requests, abortControllerRef, addressOptions, isAddressDropdownOpen>>

\* the debounce timer fires (350 ms after the last change): the body of
\* fetchAddressSuggestions up to the await of fetch
DebounceFires ==
  /\ debounce # NoCall
  /\ debounce' = NoCall
  /\ applied' = NoneApplied
  /\ IF debounce.query = <<>> \/ Len(debounce.query) < MinQueryLength
     THEN /\ addressOptions' = NoOptions
          /\ isAddressDropdownOpen' = FALSE
          /\ UNCHANGED <<requests, abortControllerRef>>
     ELSE /\ requests' = {r \in requests : r.key # abortControllerRef} \cup {debounce}
          /\ abortControllerRef' = debounce.key
          /\ UNCHANGED <<addressOptions, isAddressDropdownOpen>>
  /\ UNCHANGED <<envVars, evalVars, geoVars, decodeVars, cardVars, endVars, formVars, pageVars, myVars, calVars, handled, detailVars, siteVars,
                 addressText, keystrokes>>

\* the response of a suggestion request that was not aborted arrives:
\* fetchAddressSuggestions from the await of fetch to its end
SuggestionsArrive(r, ok) ==
  /\ r \in requests
  /\ requests' = requests \ {r}
  /\ IF ok
     THEN /\ addressOptions' = r
          /\ isAddressDropdownOpen' = TRUE
          /\ applied' = [key |-> r.key, keystrokes |-> keystrokes]
          /\ toasts' = <<>>
     ELSE /\ toasts' = <<"Failed to fetch address suggestions.">>
          /\ applied' = NoneApplied
          /\ UNCHANGED <<addressOptions, isAddressDropdownOpen>>
  /\ UNCHANGED <<envVars, evalVars, geoVars, decodeVars, cardVars, endVars, formVars, currentTab, allMeetups, fetchIsLoading, inflight,
                 currentDate, activeMeetups, myVars, calVars, handled, detailVars, siteVars,
                 addressText, keystrokes, debounce, abortControllerRef>>

\* handleAddressSelect on an option of the open dropdown (the coordinates and
\* the reverse geocoding it starts are not part of this state)
handleAddressSelect ==
  /\ isAddressDropdownOpen /\ addressOptions # NoOptions
  /\ addressText' = DisplayName
  /\ addressOptions' = NoOptions
  /\ isAddressDropdownOpen' = FALSE
  /\ applied' = NoneApplied
  /\ UNCHANGED <<envVars, evalVars, geoVars, decodeVars, cardVars, endVars, formVars, pageVars, myVars, calVars, handled, detailVars, siteVars,
                 keystrokes, debounce, requests, abortControllerRef>>

\* the create form, freshly mounted
InitSuggest ==
  /\ localZone = UTC
  /\ EnvIdle
  /\ PageIdle
  /\ CalIdle
  /\ EvalIdle
  /\ SuggestIdle
  /\ GeoIdle
  /\ DecodeIdle
  /\ CardIdle
  /\ EndIdle
  /\ FormIdle
  /\ detailsMeetup = NoMeetup
  /\ isUserRegistered = FALSE
  /\ canRegister = FALSE
  /\ isRegistering = FALSE
  /\ isUnregistering = FALSE
  /\ isSubmitting = FALSE
  /\ route = "/create"
  /\ runs = <<>>
  /\ requery = NoRequery

NextSuggest ==
  \/ \E value \in AddressTexts : handleAddressChange(value)
  \/ DebounceFires
  \/ \E r \in requests, ok \in BOOLEAN : SuggestionsArrive(r, ok)
  \/ handleAddressSelect

SpecSuggest == InitSuggest /\ [][NextSuggest]_vars

\* C12: the response of a suggestion request is stored (and opens the
\* dropdown) only if the user has changed the address input no more since
\* the query of that request was entered.
C12_StaleResponseDropped ==
  applied # NoneApplied => applied.key = applied.keystrokes

\* C27: a suggestion request that fails (network error or non-OK response,
\* not an abort) degrades silently: the options and the address input stay
\* as they are and no error notification is raised.
C27_LookupFailsSilently ==
  [][ \A r \in requests :
        SuggestionsArrive(r, FALSE) =>
          /\ toasts' = <<>>
          /\ addressOptions' = addressOptions
          /\ addressText' = addressText ]_vars

\* C28: the response of a get_all_meetups query of AppPage that was issued
\* before a query whose response has been handled already does not replace
\* the collection: allMeetups stays the result of the newer query.
C28_OlderResponseIgnored ==
  [][ \A i \in 1..MaxInflight, result \in WellFormedResults :
        (i <= overtaken /\ FetchComplete(i, result)) => allMeetups' = allMeetups ]_vars

\* C13: fetchIsLoading is true whenever a get_all_meetups query of AppPage
\* is outstanding, and false once all of them have completed.
C13_LoadingWhileOutstanding ==
  fetchIsLoading <=> inflight # <<>>

\* ----------------------------------------------------------- Home: distances
MaxHomeBatch == 3

Abs(n) == IF n < 0 THEN 0 - n ELSE n

\* metres of great circle per tenth of a degree: 6371 km * pi / 180 / 10
MetresPerTenth == 11119

\* calculateDistance (haversine, R = 6371 km), in metres. For two points of
\* one meridian the haversine formula is R times the difference of latitude;
\* the points of the runs all lie on one meridian.
calculateDistance(lat1, lon1, lat2, lon2) ==
  CASE lon1 = lon2 -> MetresPerTenth * Abs(lat2 - lat1)

\* a - b on JavaScript numbers
Subtract(a, b) ==
  CASE a.k = "nan" \/ b.k = "nan" -> NaNNum
    [] a.k = "inf" /\ b.k = "inf" -> NaNNum
    [] a.k = "inf" -> Infinity
    [] b.k = "inf" -> [k |-> "-inf", v |-> 0]
    [] OTHER -> Num(a.v - b.v)

\* the comparator of the sort of inPersonMeetups
Compare_byTimestamp(a, b, located) == Num(a.timestamp - b.timestamp)

Compare(a, b, located) ==
  IF located THEN Subtract(a.distance, b.distance) ELSE Num(a.timestamp - b.timestamp)

\* Array.prototype.sort moves b before a only when the comparator is positive
Positive(c) == c.k = "inf" \/ (c.k = "num" /\ c.v > 0)

\* Array.prototype.sort, which is stable
RECURSIVE Insert(_, _, _)
Insert(x, sorted, located) ==
  IF sorted = <<>> THEN <<x>>
  ELSE LET last == sorted[Len(sorted)]
       IN IF Positive(Compare(last, x, located))
          THEN Append(Insert(x, SubSeq(sorted, 1, Len(sorted) - 1), located), last)
          ELSE Append(sorted, x)

RECURSIVE Sort(_, _)
Sort(arr, located) ==
  IF arr = <<>> THEN <<>>
  ELSE Insert(arr[Len(arr)], Sort(SubSeq(arr, 1, Len(arr) - 1), located), located)

\* the map callback of inPersonMeetups
WithDistance(m, location) ==
  LET parts == split(m.location)
      lat == Number(At(parts, 1))
      lon == Number(At(parts, 2))
      distance == IF location # NoLocation /\ ~isNaN(lat) /\ ~isNaN(lon)
                  THEN Num(calculateDistance(location[1], location[2], lat.v, lon.v))
                  ELSE Infinity
  IN [id |-> m.id, locationType |-> m.locationType, location |-> m.location,
      timestamp |-> m.timestamp, distance |-> distance]

RECURSIVE MapDistance(_, _)
MapDistance(arr, location) ==
  IF arr = <<>> THEN <<>>
  ELSE <<WithDistance(Head(arr), location)>> \o MapDistance(Tail(arr), location)

IsInPerson(m) == m.locationType = "InPerson"

InPersonMeetups(meetups, location, failed) ==
  Sort(MapDistance(SelectSeq(meetups, IsInPerson), location), location # NoLocation /\ ~failed)

closestMeetupId_first(sorted) == IF Len(sorted) > 0 THEN sorted[1].id ELSE NoId

ClosestMeetupId(sorted) ==
  IF Len(sorted) > 0 /\ sorted[1].distance # Infinity THEN sorted[1].id ELSE NoId

HasMarker(m) == Home_parseLocation(m.location) # NoCoords

RECURSIVE Ids(_)
Ids(arr) == IF arr = <<>> THEN <<>> ELSE <<Head(arr).id>> \o Ids(Tail(arr))

MapMarkers(sorted) == Ids(SelectSeq(sorted, HasMarker))

\* a render of Home
RenderHome(meetups, location, failed) ==
  LET sorted == InPersonMeetups(meetups, location, failed)
  IN /\ inPersonMeetups' = sorted
     /\ closestMeetupId' = ClosestMeetupId(sorted)
     /\ mapMarkers' = MapMarkers(sorted)

Txt51_5 == <<53, 49, 46, 53>>
Txt51_6 == <<53, 49, 46, 54>>
Txt51_7 == <<53, 49, 46, 55>>
TxtOldFormat == <<111, 108, 100, 124, 102, 111, 114, 109, 97, 116>>

\* the records Home is given, on the viewer's meridian: two at one distance
\* of the nearer viewer and at different distances of the farther one, two
\* at one start time, one in the legacy format, one whose longitude is
\* empty, one online
HomeRecords ==
  { [id |-> 1, locationType |-> "InPerson", location |-> Txt51_5 \o <<Comma, 48>>, timestamp |-> 300],
    [id |-> 3, locationType |-> "InPerson", location |-> TxtOldFormat, timestamp |-> 200],
    [id |-> 4, locationType |-> "InPerson", location |-> Txt51_7 \o <<Comma, 48>>, timestamp |-> 200],
    [id |-> 5, locationType |-> "InPerson", location |-> Txt51_6 \o <<Comma>>, timestamp |-> 400],
    [id |-> 6, locationType |-> "Online", location |-> <<>>, timestamp |-> 250] }

HomeBatches ==
  UNION { { b \in [1..n -> HomeRecords] : \A i, j \in 1..n : i # j => b[i].id # b[j].id } :
          n \in 0..MaxHomeBatch }

ViewerLocations == { <<516, 0>>, <<510, 0>> }

\* getUserLocation() resolves
LocationResolved(coords) ==
  /\ route = "/app"
  /\ userLocation = NoLocation /\ ~locationError
  /\ userLocation' = coords
  /\ RenderHome(homeMeetups, coords, locationError)
  /\ UNCHANGED <<envVars, evalVars, pageVars, myVars, calVars, handled, detailVars, siteVars,
                 suggestVars, decodeVars, cardVars, endVars, formVars, homeMeetups, locationError, locationText, parsed>>

\* getUserLocation() rejects
LocationFailed ==
  /\ route = "/app"
  /\ userLocation = NoLocation /\ ~locationError
  /\ locationError' = TRUE
  /\ RenderHome(homeMeetups, userLocation, TRUE)
  /\ UNCHANGED <<envVars, evalVars, pageVars, myVars, calVars, handled, detailVars, siteVars,
                 suggestVars, decodeVars, cardVars, endVars, formVars, homeMeetups, userLocation, locationText, parsed>>

\* AppPage renders with another collection
HomeProps(meetups) ==
  /\ route = "/app"
  /\ meetups # homeMeetups
  /\ homeMeetups' = meetups
  /\ RenderHome(meetups, userLocation, locationError)
  /\ UNCHANGED <<envVars, evalVars, pageVars, myVars, calVars, handled, detailVars, siteVars,
                 suggestVars, decodeVars, cardVars, endVars, formVars, userLocation, locationError, locationText, parsed>>

\* Home, freshly mounted with some collection
InitHome ==
  /\ localZone = UTC
  /\ EnvIdle
  /\ PageIdle
  /\ CalIdle
  /\ EvalIdle
  /\ SuggestIdle
  /\ detailsMeetup = NoMeetup
  /\ isUserRegistered = FALSE
  /\ canRegister = FALSE
  /\ isRegistering = FALSE
  /\ isUnregistering = FALSE
  /\ isSubmitting = FALSE
  /\ route = "/app"
  /\ runs = <<>>
  /\ requery = NoRequery
  /\ homeMeetups \in HomeBatches
  /\ userLocation = NoLocation
  /\ locationError = FALSE
  /\ inPersonMeetups = InPersonMeetups(homeMeetups, NoLocation, FALSE)
  /\ closestMeetupId = ClosestMeetupId(inPersonMeetups)
  /\ mapMarkers = MapMarkers(inPersonMeetups)
  /\ locationText = <<>>
  /\ parsed = NotParsed
  /\ DecodeIdle
  /\ CardIdle
  /\ EndIdle
  /\ FormIdle

NextHome ==
  \/ \E coords \in ViewerLocations : LocationResolved(coords)
  \/ LocationFailed
  \/ \E meetups \in HomeBatches : HomeProps(meetups)

SpecHome == InitHome /\ [][NextHome]_vars

\* the position of the record with this id in the prop
PropIndex(id) == CHOOSE i \in 1..Len(homeMeetups) : homeMeetups[i].id = id

DistanceLess(a, b) == a.k = "num" /\ (b.k = "inf" \/ a.v < b.v)

Located == userLocation # NoLocation /\ ~locationError

SameRecords ==
  /\ Len(inPersonMeetups) = Len(SelectSeq(homeMeetups, IsInPerson))
  /\ \A i \in 1..Len(homeMeetups) :
       IsInPerson(homeMeetups[i]) =>
         \E j \in 1..Len(inPersonMeetups) : inPersonMeetups[j].id = homeMeetups[i].id

\* C14: the in-person list is the in-person records of the prop, ordered by
\* non-decreasing distance when the viewer's coordinates are available and
\* by non-decreasing start time when they are not; records that compare
\* equal keep the order they have in the prop.
C14_OrderedList ==
  /\ SameRecords
  /\ \A i, j \in 1..Len(inPersonMeetups) :
       i < j =>
         LET a == inPersonMeetups[i]
             b == inPersonMeetups[j]
         IN IF Located
            THEN /\ ~DistanceLess(b.distance, a.distance)
                 /\ a.distance = b.distance => PropIndex(a.id) < PropIndex(b.id)
            ELSE /\ a.timestamp <= b.timestamp
                 /\ a.timestamp = b.timestamp => PropIndex(a.id) < PropIndex(b.id)

C14_Witness ==
  /\ Located
  /\ Ids(homeMeetups) = <<3, 4, 1>>
  /\ Ids(inPersonMeetups) = <<4, 1, 3>>
  /\ inPersonMeetups[1].distance = inPersonMeetups[2].distance

\* a component of a location string that is a number written out
IsLiteral(text) ==
  LET trimmed == TrimRight(TrimLeft(text))
  IN trimmed # <<>> /\ DecimalPrefix(trimmed).ok /\ DecimalPrefix(trimmed).rest = <<>>

\* a location string whose coordinates cannot be parsed: no comma, the
\* legacy format with a pipe, or a latitude or longitude that is empty or
\* not a number
Unparseable(location) ==
  \/ ~Includes(location, Comma)
  \/ Includes(location, Pipe)
  \/ ~IsLiteral(split(location)[1])
  \/ ~IsLiteral(split(location)[2])

\* C15: a record of the in-person list whose location cannot be parsed
\* (non-numeric or empty component, no comma, legacy pipe format) has the
\* distance Infinity, never a finite one.
C15_UnparseableIsInfinite ==
  \A i \in 1..Len(inPersonMeetups) :
    Unparseable(inPersonMeetups[i].location) => inPersonMeetups[i].distance = Infinity

\* C16: closestMeetupId is null when the viewer's location is unavailable or
\* every distance is infinite; otherwise it is the id of exactly one record
\* of the list, whose distance is finite and no greater than any other.
C16_ClosestIsNearest ==
  IF userLocation = NoLocation
     \/ \A i \in 1..Len(inPersonMeetups) : inPersonMeetups[i].distance = Infinity
  THEN closestMeetupId = NoId
  ELSE /\ Cardinality({i \in 1..Len(inPersonMeetups) :
                         inPersonMeetups[i].id = closestMeetupId}) = 1
       /\ \A i \in 1..Len(inPersonMeetups) :
            inPersonMeetups[i].id = closestMeetupId =>
              /\ inPersonMeetups[i].distance.k = "num"
              /\ \A j \in 1..Len(inPersonMeetups) :
                   ~DistanceLess(inPersonMeetups[j].distance, inPersonMeetups[i].distance)

C16_Witness ==
  /\ userLocation = <<510, 0>>
  /\ Ids(homeMeetups) = <<3, 4, 1>>
  /\ Ids(inPersonMeetups) = <<1, 4, 3>>
  /\ closestMeetupId = 1

\* ------------------------------------------------------- location parsers
MaxLocationLen == 4

\* the characters of the location strings: a digit, a letter, the comma,
\* the pipe of the legacy format and the decimal point
LocationChars == {53, 97, Comma, Pipe, Dot}

LocationTexts == UNION { [1..n -> LocationChars] : n \in 0..MaxLocationLen }

\* each component hands the location string of a record to its parser
ParseLocation ==
  /\ parsed = NotParsed
  /\ parsed' = [map |-> MeetupMap_parseLocation(locationText),
                home |-> Home_parseLocation(locationText),
                details |-> getLocationCoords(locationText)]
  /\ UNCHANGED <<envVars, evalVars, pageVars, myVars, calVars, handled, detailVars, siteVars,
                 suggestVars, decodeVars, cardVars, endVars, formVars, homeMeetups, userLocation, locationError, inPersonMeetups,
                 closestMeetupId, mapMarkers, locationText>>

InitCoords ==
  /\ localZone = UTC
  /\ EnvIdle
  /\ PageIdle
  /\ CalIdle
  /\ EvalIdle
  /\ SuggestIdle
  /\ SiteIdle
  /\ homeMeetups = <<>>
  /\ userLocation = NoLocation
  /\ locationError = FALSE
  /\ inPersonMeetups = <<>>
  /\ closestMeetupId = NoId
  /\ mapMarkers = <<>>
  /\ locationText \in LocationTexts
  /\ parsed = NotParsed
  /\ DecodeIdle
  /\ CardIdle
  /\ EndIdle
  /\ FormIdle

NextCoords == ParseLocation

SpecCoords == InitCoords /\ [][NextCoords]_vars

\* a component that is there and is not a number written out
NonNumeric(text) == TrimLeft(text) # <<>> /\ ~IsLiteral(text)

\* a location string that is non-numeric, lacks the comma or is in the
\* legacy pipe format
Malformed(location) ==
  \/ ~Includes(location, Comma)
  \/ Includes(location, Pipe)
  \/ NonNumeric(split(location)[1])
  \/ NonNumeric(split(location)[2])

\* C17: each of the three location parsers returns no coordinates for a
\* location string that is non-numeric, lacks the comma or uses the legacy
\* pipe format.
C17_ParsersReject ==
  parsed # NotParsed /\ Malformed(locationText) =>
    parsed.map = NoCoords /\ parsed.home = NoCoords /\ parsed.details = NoCoords

\* --------------------------------------------------------- record decoders
Unknown == <<85, 110, 107, 110, 111, 119, 110>>
Hybrid == <<72, 121, 98, 114, 105, 100>>

\* { name: null }
JVariant(name) == [t |-> "variant", v |-> name]

\* Home.fetchMeetups: meetup.status?._enum || 'Planned'
Home_status(meetup) ==
  IF Falsy(EnumName(meetup.status)) THEN JStr(Planned) ELSE EnumName(meetup.status)

\* Home.fetchMeetups: meetup.location_type?._enum || 'Online', then the test for 'Online'
Home_locationType(meetup) ==
  LET locationType == IF Falsy(EnumName(meetup.location_type))
                      THEN JStr(Online)
                      ELSE EnumName(meetup.location_type)
  IN IF locationType = JStr(Online) THEN Online ELSE InPerson

validStatuses == {Planned, Ongoing, Ended, Cancelled}

\* MeetupDetails.fetchMeetupDetails: Object.keys(meetupData.status)[0], kept
\* if it is a valid status. The first key of a string is "0", that of an
\* enum wrapper "_enum"; Object.keys of undefined or null raises TypeError.
decodedStatus(status) ==
  CASE status.t \in {"undefined", "null"} -> Throw
    [] status.t = "variant" /\ status.v \in validStatuses -> Ok(status.v)
    [] OTHER -> Ok(Planned)

RawTimezones == {Undefined, JNull, JStr(EmptyStr), JArr(<<>>), JNum(5), JArr(UTC), JStr(Japan)}

RawStatuses == {Undefined, JStr(Planned), JStr(Ended), JStr(Unknown),
                JEnum(Ended), JEnum(Unknown), JVariant(Ended)}

RawLocationTypes == {Undefined, JEnum(Online), JEnum(InPerson), JEnum(Hybrid)}

RawLocationTypeNames == {Undefined, JStr(Online), JStr(InPerson)}

\* raw records that differ in the timezone, the status and the location kind
RawShapes ==
  { [RawMeetup(Alice5, JArr(<<>>), Grouped(Epoch0 + 1000), timezone, status)
       EXCEPT !.location_type = kind, !.locationType = name] :
    timezone \in RawTimezones, status \in RawStatuses,
    kind \in RawLocationTypes, name \in RawLocationTypeNames }

\* each fetch hands the raw record to its decoder
Decode ==
  /\ decodings = NotDecoded
  /\ decodings' = [page |-> DecodeMeetup(1, rawMeetup),
                   homeStatus |-> Home_status(rawMeetup),
                   homeLocationType |-> Home_locationType(rawMeetup),
                   detailsStatus |-> decodedStatus(rawMeetup.status)]
  /\ UNCHANGED <<envVars, evalVars, pageVars, myVars, calVars, handled, detailVars, siteVars,
                 suggestVars, geoVars, cardVars, endVars, formVars, rawMeetup, encodedText, decodedForms, numericField,
                 decodedNumber>>

InitDecode ==
  /\ localZone = UTC
  /\ EnvIdle
  /\ PageIdle
  /\ CalIdle
  /\ EvalIdle
  /\ SuggestIdle
  /\ SiteIdle
  /\ GeoIdle
  /\ rawMeetup \in RawShapes
  /\ decodings = NotDecoded
  /\ encodedText = <<>>
  /\ decodedForms = NotDecoded
  /\ numericField = NoField
  /\ decodedNumber = NotDecoded
  /\ CardIdle
  /\ EndIdle
  /\ FormIdle

NextDecode == Decode

SpecDecode == InitDecode /\ [][NextDecode]_vars

\* the timezone of the raw record is undefined, null, empty or of a shape
\* decodeVecU8 does not support
TimezoneAbsent(timezone) ==
  \/ timezone.t \in {"undefined", "null"}
  \/ (timezone.t \in {"string", "array"} /\ timezone.v = <<>>)
  \/ timezone.t \notin {"string", "array"}

\* C18: the record AppPage decodes from a raw record whose timezone is
\* undefined, null, empty or of an unsupported shape has the timezone "UTC".
C18_TimezoneDefaultsToUTC ==
  decodings # NotDecoded /\ decodings.page.ok /\ TimezoneAbsent(rawMeetup.timezone) =>
    decodings.page.v[1].timezone = UTC

\* the status names a variant, as a bare string or as an enum wrapper
StatusName(status) == IF status.t \in {"string", "enum"} THEN status.v ELSE <<>>

\* C19: a raw status that names an unrecognized variant, as a bare string or
\* as an enum wrapper, decodes to 'Planned' in AppPage, Home and
\* MeetupDetails without an error; one that names a recognized variant
\* decodes to that variant.
C19_StatusFallsBackToPlanned ==
  decodings # NotDecoded /\ rawMeetup.status.t \in {"string", "enum"} =>
    LET expected == IF StatusName(rawMeetup.status) \in validStatuses
                    THEN StatusName(rawMeetup.status)
                    ELSE Planned
    IN /\ decodings.page.ok /\ decodings.page.v[1].status = JStr(expected)
       /\ decodings.homeStatus = JStr(expected)
       /\ decodings.detailsStatus = Ok(expected)

\* the raw record names this location kind, as an enum wrapper or as a bare string
NamesKind(meetup, kind) ==
  \/ meetup.location_type = JEnum(kind)
  \/ meetup.locationType = JStr(kind)
  \/ meetup.loc_type = JStr(kind)

\* C20: AppPage and Home decode the location kind to 'InPerson' only when
\* the raw record names InPerson, and to 'Online' when the kind is missing
\* or unrecognized.
C20_LocationKindDefaultsToOnline ==
  decodings # NotDecoded /\ decodings.page.ok =>
    /\ decodings.page.v[1].locationType = InPerson => NamesKind(rawMeetup, InPerson)
    /\ decodings.homeLocationType = InPerson => NamesKind(rawMeetup, InPerson)
    /\ ~NamesKind(rawMeetup, InPerson) /\ ~NamesKind(rawMeetup, Online) =>
         /\ decodings.page.v[1].locationType = Online
         /\ decodings.homeLocationType = Online

\* ------------------------------------------------- decodeVecU8 encodings
MaxTextLen == 3

\* the characters of the texts: the two of the hex prefix, a hex digit and a letter
TextChars == {48, 120, 52, 65}

CodecTexts == UNION { [1..n -> TextChars] : n \in 0..MaxTextLen }

\* decodeVecU8 of the three encodings of one text, as the contract may
\* return it: the bytes, their 0x-prefixed hex digits, the plain string
DecodeForms ==
  /\ decodedForms = NotDecoded
  /\ decodedForms' = [bytes |-> decodeVecU8(JArr(encodedText)),
                      hex |-> decodeVecU8(JStr(u8aToHex(encodedText))),
                      plain |-> decodeVecU8(JStr(encodedText))]
  /\ UNCHANGED <<envVars, evalVars, pageVars, myVars, calVars, handled, detailVars, siteVars,
                 suggestVars, geoVars, cardVars, endVars, formVars, rawMeetup, decodings, encodedText, numericField,
                 decodedNumber>>

InitCodec ==
  /\ localZone = UTC
  /\ EnvIdle
  /\ PageIdle
  /\ CalIdle
  /\ EvalIdle
  /\ SuggestIdle
  /\ SiteIdle
  /\ GeoIdle
  /\ rawMeetup = NoRecord
  /\ decodings = NotDecoded
  /\ encodedText \in CodecTexts
  /\ decodedForms = NotDecoded
  /\ numericField = NoField
  /\ decodedNumber = NotDecoded
  /\ CardIdle
  /\ EndIdle
  /\ FormIdle

NextCodec == DecodeForms

SpecCodec == InitCodec /\ [][NextCodec]_vars

\* C21: decodeVecU8 returns one and the same string for the byte array, the
\* 0x-prefixed hex string and the plain string that encode one text, the
\* empty text and texts beginning with '0x' included.
C21_EncodingsAgree ==
  decodedForms # NotDecoded =>
    /\ decodedForms.bytes.ok /\ decodedForms.hex.ok /\ decodedForms.plain.ok
    /\ decodedForms.bytes.v = decodedForms.hex.v
    /\ decodedForms.bytes.v = decodedForms.plain.v

\* --------------------------------------------------------- numeric fields
\* An integer beyond the range of the model checker's integers is held as
\* <<hi, lo>>, its value hi * 10^8 + lo with lo < 10^8.
Pow53 == <<90071992, 54740992>>

WideLe(a, b) == a[1] < b[1] \/ (a[1] = b[1] /\ a[2] <= b[2])

\* the Number nearest to an integer below 2^54: every integer up to 2^53 is
\* a Number, above it only the even ones are, and an odd one rounds to the
\* neighbour whose mantissa is even, that is to the multiple of four
ToNumber(n) ==
  IF WideLe(n, Pow53) \/ n[2] % 2 = 0 THEN n
  ELSE IF n[2] % 4 = 1 THEN <<n[1], n[2] - 1>>
  ELSE IF n[2] = 99999999 THEN <<n[1] + 1, 0>>
  ELSE <<n[1], n[2] + 1>>

NaNWide == <<NaN, NaN>>

\* parseInt(str) of text without sign or leading blanks, as a Number
parseIntWide(str) ==
  LET d == DigitPrefix(str)
      n == Len(d)
  IN IF d = <<>> THEN NaNWide
     ELSE IF n <= 8 THEN <<0, ParseDigits(d, 0)>>
     ELSE ToNumber(<<ParseDigits(SubSeq(d, 1, n - 8), 0), ParseDigits(SubSeq(d, n - 7, n), 0)>>)

\* the decimal digits of <<hi, lo>>
RECURSIVE ZeroPad(_)
ZeroPad(d) == IF Len(d) >= 8 THEN d ELSE ZeroPad(<<48>> \o d)

WideDigits(n) == IF n[1] = 0 THEN Digits(n[2]) ELSE Digits(n[1]) \o ZeroPad(Digits(n[2]))

\* str.replace(',', ''): without the g flag only the first comma goes
RECURSIVE StripFirstComma(_)
StripFirstComma(str) ==
  IF str = <<>> THEN <<>>
  ELSE IF Head(str) = Comma THEN Tail(str)
  ELSE <<Head(str)>> \o StripFirstComma(Tail(str))

DecodeNumeric_firstComma(field, x) ==
  IF x.t = "string" THEN Ok(parseIntWide(StripFirstComma(x.v)))
  ELSE IF field = "totalPaid" THEN Ok(x)
  ELSE Throw

\* the decoding of a numeric field in fetchMeetups: timestamp and price are
\* parseInt(x.replace(/,/g, '')), and replace exists on strings only;
\* totalPaid is decoded so when it is a string and kept as it is otherwise
DecodeNumeric(field, x) ==
  IF x.t = "string" THEN Ok(parseIntWide(StripCommas(x.v)))
  ELSE IF field = "totalPaid" THEN Ok(x)
  ELSE Throw

NumericFields == {"timestamp", "price", "totalPaid"}

\* the integers the contract may hold: of one to three groups of digits,
\* with zeros inside, and around 2^53
ContractIntegers ==
  { <<hi, lo>> : hi \in {0, 1, 12}, lo \in {0, 5, 999, 1000, 1234, 50005, 1234567, 99999999} }
    \cup { <<90071992, lo>> : lo \in 54740990..54740995 }

\* fetchMeetups decodes the field from the comma-grouped digits the contract returns
DecodeNumber ==
  /\ decodedNumber = NotDecoded
  /\ decodedNumber' = DecodeNumeric(numericField.field,
                                    JStr(GroupDigits(WideDigits(numericField.value))))
  /\ UNCHANGED <<envVars, evalVars, pageVars, myVars, calVars, handled, detailVars, siteVars,
                 suggestVars, geoVars, cardVars, endVars, formVars, rawMeetup, decodings, encodedText, decodedForms,
                 numericField>>

InitNumeric ==
  /\ localZone = UTC
  /\ EnvIdle
  /\ PageIdle
  /\ CalIdle
  /\ EvalIdle
  /\ SuggestIdle
  /\ SiteIdle
  /\ GeoIdle
  /\ rawMeetup = NoRecord
  /\ decodings = NotDecoded
  /\ encodedText = <<>>
  /\ decodedForms = NotDecoded
  /\ numericField \in [field : NumericFields, value : ContractIntegers]
  /\ decodedNumber = NotDecoded
  /\ CardIdle
  /\ EndIdle
  /\ FormIdle

NextNumeric == DecodeNumber

SpecNumeric == InitNumeric /\ [][NextNumeric]_vars

\* C22 as stated: the number decoded from comma-grouped digits is the
\* integer those digits denote.
C22_DecodesTheInteger ==
  decodedNumber # NotDecoded => decodedNumber = Ok(numericField.value)

\* C22: the number decoded from comma-grouped digits is the number parseInt
\* gives for the same digits without commas; it is the integer those digits
\* denote whenever that integer is at most 2^53.
C22_DecodesUngrouped ==
  decodedNumber # NotDecoded =>
    /\ decodedNumber = Ok(parseIntWide(WideDigits(numericField.value)))
    /\ WideLe(numericField.value, Pow53) => decodedNumber = Ok(numericField.value)

C22_Witness ==
  /\ decodedNumber = Ok(<<0, 1234567>>)
  /\ numericField = [field |-> "totalPaid", value |-> <<0, 1234567>>]

\* ------------------------------------------------- MeetupCard: countdown
MaxSkew == 2

MsPerMinute == 60000
MsPerDay == 86400000

Started == <<83, 116, 97, 114, 116, 101, 100>>

\* `${days}d ${hours}h ${minutes}m ${seconds}s`
CountdownText(days, hours, minutes, seconds) ==
  Digits(days) \o <<100, 32>> \o Digits(hours) \o <<104, 32>>
    \o Digits(minutes) \o <<109, 32>> \o Digits(seconds) \o <<115>>

formatCountdown_noModulo(timestamp, currentTime) ==
  LET diffMs == timestamp - currentTime
  IN IF diffMs <= 0 THEN Started
     ELSE CountdownText(diffMs \div MsPerDay, diffMs \div MsPerHour,
                        diffMs \div MsPerMinute, diffMs \div MsPerSecond)

formatCountdown(timestamp, currentTime) ==
  LET diffMs == timestamp - currentTime
  IN IF diffMs <= 0 THEN Started
     ELSE CountdownText(diffMs \div MsPerDay,
                        (diffMs % MsPerDay) \div MsPerHour,
                        (diffMs % MsPerHour) \div MsPerMinute,
                        (diffMs % MsPerMinute) \div MsPerSecond)

twoDaysInMs == 48 * 60 * 60 * 1000

\* the countdown of a render of MeetupCard whose three calls of Date.now()
\* returned reads[1], reads[2] and reads[3]
Countdown(timestamp, reads) ==
  LET isWithinTwoDays == timestamp > reads[1] /\ timestamp <= reads[2] + twoDaysInMs
  IN IF isWithinTwoDays THEN formatCountdown(timestamp, reads[3]) ELSE NoCountdown

\* the remaining durations of the cards, in milliseconds: around every unit
\* boundary and around both ends of the window
CardDurations ==
  {-1000, 0, 1, 2, 999, 1000, 59999, 60000, 3599999, 3600000, 5400000, 86399999, 86400000,
   90061001, 172799999, 172800000, 172800001, 172800002}

\* a render of MeetupCard: the clock may advance between its reads
RenderCard(skew1, skew2) ==
  /\ cardReads' = <<Epoch0, Epoch0 + skew1, Epoch0 + skew1 + skew2>>
  /\ cardReads' # cardReads
  /\ countdown' = Countdown(cardTimestamp, cardReads')
  /\ UNCHANGED <<envVars, evalVars, pageVars, myVars, calVars, handled, detailVars, siteVars,
                 suggestVars, geoVars, decodeVars, endVars, formVars, cardTimestamp, bucketVars>>

InitCard ==
  /\ localZone = UTC
  /\ EnvIdle
  /\ PageIdle
  /\ CalIdle
  /\ EvalIdle
  /\ SuggestIdle
  /\ SiteIdle
  /\ GeoIdle
  /\ DecodeIdle
  /\ EndIdle
  /\ FormIdle
  /\ cardTimestamp \in {Epoch0 + d : d \in CardDurations}
  /\ cardReads = <<>>
  /\ countdown = NoCountdown
  /\ BucketIdle

NextCard == \E skew1, skew2 \in 0..MaxSkew : RenderCard(skew1, skew2)

SpecCard == InitCard /\ [][NextCard]_vars

\* the remaining duration at the read formatCountdown is given
Remaining == cardTimestamp - cardReads[3]

\* C23: for a positive remaining duration d the countdown shows
\* days = d div 86400000, hours = (d mod 86400000) div 3600000,
\* minutes = (d mod 3600000) div 60000, seconds = (d mod 60000) div 1000;
\* hours is in 0..23, minutes and seconds are in 0..59, and the four add up
\* to d div 1000 seconds.
C23_CountdownDecomposition ==
  cardReads # <<>> /\ countdown # NoCountdown /\ Remaining > 0 =>
    LET d == Remaining
        days == d \div 86400000
        hours == (d % 86400000) \div 3600000
        minutes == (d % 3600000) \div 60000
        seconds == (d % 60000) \div 1000
    IN /\ countdown = CountdownText(days, hours, minutes, seconds)
       /\ hours \in 0..23 /\ minutes \in 0..59 /\ seconds \in 0..59
       /\ days * 86400 + hours * 3600 + minutes * 60 + seconds = d \div 1000

\* 90 minutes ahead: "0d 1h 30m 0s"
C23_Witness ==
  /\ cardReads = <<Epoch0, Epoch0, Epoch0>>
  /\ cardTimestamp = Epoch0 + 5400000
  /\ countdown = <<48, 100, 32, 49, 104, 32, 51, 48, 109, 32, 48, 115>>

\* C24: the card has a countdown exactly when the start time lies after
\* the reference instant and at most 48 hours after it, and the countdown
\* then is a days-hours-minutes-seconds decomposition; this holds for one
\* of the card's reads of the clock as the reference instant, also when
\* the clock advances between the reads.
C24_CountdownInWindow ==
  cardReads # <<>> =>
    \E i \in 1..3 :
      LET inWindow == cardTimestamp > cardReads[i] /\ cardTimestamp <= cardReads[i] + 172800000
      IN /\ countdown # NoCountdown <=> inWindow
         /\ countdown # NoCountdown => countdown # Started

\* ------------------------------------------------------------ display zone
\* MeetupCard.displayTimezone: the viewer's zone for an online record, the
\* record's own zone (or 'UTC') for an in-person one
DisplayTimezone(meetup, userTimezone) ==
  IF meetup.locationType = Online THEN userTimezone ELSE ZoneOrUTC(meetup.timezone)

\* the start of the record as a reading of the given zone, taken the way
\* hasMeetupPassed and hasMeetupStarted take a reading
LocalTimeIn(meetup, zone, local) ==
  LET f == FormatInZone(meetup.timestamp, zone)
  IN IF f.ok THEN Ok(ParseLocal(f.v, local)) ELSE Throw

\* C25: hasMeetupStarted and hasMeetupPassed evaluate a record in its
\* display zone: the viewer's local zone for an Online record, the record's
\* declared zone for an InPerson one.
C25_ChecksUseDisplayZone ==
  evalDone =>
    LET t == LocalTimeIn(evalMeetup, DisplayTimezone(evalMeetup, localZone), localZone)
    IN /\ evalStarted = (t.ok /\ DateLe(t.v, evalDate))
       /\ evalPassed = (t.ok /\ DateLt(t.v, evalDate))

\* -------------------------------------------- MeetupCalendar: day buckets
MaxCalendarDay == 1

\* the calendar day (counted from the epoch) an instant falls on in a zone
DayInZone(ts, zone) == (ts + ZoneOffsetMs(zone)) \div MsPerDay

\* date-fns isSameDay: the same calendar day of the viewer's local zone
isSameDay(a, b, local) == DayInZone(a, local) = DayInZone(b, local)

\* the date of the tile of day D: its midnight in the viewer's local zone
TileDate(D, local) == D * MsPerDay - ZoneOffsetMs(local)

\* the meetups.filter(...) of tileContent, tileClassName and filteredMeetups
MeetupsOfDay(meetups, date, local) ==
  SelectSeq(meetups, LAMBDA m : isSameDay(m.timestamp, date, local))

\* a render of MeetupCalendar
RenderCalendar(meetups, selected, local) ==
  /\ dotDays' = {D \in 0..MaxCalendarDay : MeetupsOfDay(meetups, TileDate(D, local), local) # <<>>}
  /\ filteredMeetups' = MeetupsOfDay(meetups, selected, local)

\* the day MeetupCard.displayTime shows on the card of a record
CardDay(meetup, userTimezone) ==
  DayInZone(meetup.timestamp, DisplayTimezone(meetup, userTimezone))

\* records late in day 0, early in day 1 and early in day 0 of UTC
CalendarRecords ==
  [id : {1}, timestamp : {Epoch0, Epoch0 + 8 * MsPerHour, Epoch0 - 14 * MsPerHour},
   timezone : ValidZones, locationType : {Online, InPerson}]

\* Calendar onChange: the user picks the tile of day D
SelectDate(D) ==
  /\ selectedDate' = TileDate(D, localZone)
  /\ selectedDate' # selectedDate
  /\ RenderCalendar(calendarMeetups, selectedDate', localZone)
  /\ UNCHANGED <<envVars, evalVars, pageVars, myVars, calVars, handled, detailVars, siteVars,
                 suggestVars, geoVars, decodeVars, endVars, formVars, cardTimestamp, cardReads, countdown,
                 calendarMeetups>>

\* MeetupCalendar, freshly mounted with one record: selectedDate is new Date()
InitCalendar ==
  /\ localZone \in ValidZones
  /\ EnvIdle
  /\ PageIdle
  /\ CalIdle
  /\ EvalIdle
  /\ SuggestIdle
  /\ SiteIdle
  /\ GeoIdle
  /\ DecodeIdle
  /\ EndIdle
  /\ FormIdle
  /\ cardTimestamp = 0
  /\ cardReads = <<>>
  /\ countdown = NoCountdown
  /\ \E m \in CalendarRecords : calendarMeetups = <<m>>
  /\ selectedDate = Epoch0
  /\ dotDays = {D \in 0..MaxCalendarDay :
                  MeetupsOfDay(calendarMeetups, TileDate(D, localZone), localZone) # <<>>}
  /\ filteredMeetups = MeetupsOfDay(calendarMeetups, selectedDate, localZone)

NextCalendar == \E D \in 0..MaxCalendarDay : SelectDate(D)

SpecCalendar == InitCalendar /\ [][NextCalendar]_vars

\* C26: the calendar counts a record on day D, in the tile indicator and in
\* the list of the selected date alike, exactly when the card of the record
\* shows D, the day of its start in its display zone (the viewer's zone for
\* Online, the declared zone for InPerson).
C26_BucketEqualsCardDay ==
  \A i \in 1..Len(calendarMeetups) :
    LET m == calendarMeetups[i]
    IN /\ \A D \in 0..MaxCalendarDay : D \in dotDays <=> CardDay(m, localZone) = D
       /\ (\E j \in 1..Len(filteredMeetups) : filteredMeetups[j] = m)
            <=> CardDay(m, localZone) = DayInZone(selectedDate, localZone)

\* ------------------------------------------- CreateMeetup: handleSubmit
MAX_TEXT_BYTES == 128
MAX_ATTENDEES == 1000

\* a text of n times the character c
Repeat(c, n) == [i \in 1..n |-> c]

\* the bytes TextEncoder writes for one character
Utf8Bytes(c) == IF c < 128 THEN 1 ELSE IF c < 2048 THEN 2 ELSE IF c < 65536 THEN 3 ELSE 4

\* the characters of str that take k bytes
CharsOf(str, k) == Cardinality({i \in 1..Len(str) : Utf8Bytes(str[i]) = k})

\* getByteLength(str): encodeVecU8(str).length
getByteLength(str) ==
  CharsOf(str, 1) + 2 * CharsOf(str, 2) + 3 * CharsOf(str, 3) + 4 * CharsOf(str, 4)

\* validateTextLength(str, label) returns (it throws otherwise)
validateTextLength(str) == getByteLength(str) <= MAX_TEXT_BYTES

\* parseInt(str, 10): blanks, a sign, then the longest prefix of digits; the
\* value is held in units
parseInt_radix10(str) ==
  LET text == TrimLeft(str)
      negative == text # <<>> /\ Head(text) = Minus
      digits == DigitPrefix(IF negative THEN Tail(text) ELSE text)
  IN IF digits = <<>> THEN NaNNum
     ELSE Num(IF negative THEN 0 - ParseDigits(digits, 0) ELSE ParseDigits(digits, 0))

\* fromZonedTime(new Date(timestamp), eventTimezone).getTime(): the instant
\* at which the clocks of the zone show the wall time entered in the form;
\* NaN for an empty input or a zone name Intl does not know
fromZonedTime(wall, zone) ==
  IF IsNaN(wall) \/ zone \notin ValidZones THEN NaN ELSE wall - ZoneOffsetMs(zone)

\* `${n}` of a number held in tenths
NumberText(n) ==
  (IF n < 0 THEN <<Minus>> ELSE <<>>)
    \o Digits(Abs(n) \div 10)
    \o (IF Abs(n) % 10 = 0 THEN <<>> ELSE <<Dot, 48 + (Abs(n) % 10)>>)

\* 'No meeting URL provided'
NoMeetingUrl ==
  <<78, 111, 32, 109, 101, 101, 116, 105, 110, 103, 32, 85, 82, 76, 32,
    112, 114, 111, 118, 105, 100, 101, 100>>

\* locationData of handleSubmit; coordinates are selected when it is read
\* for an in-person meetup
LocationData(form) ==
  IF form.locationType = "online"
  THEN IF form.onlineMeetingUrl = <<>> THEN NoMeetingUrl ELSE form.onlineMeetingUrl
  ELSE NumberText(form.coordinates[1]) \o <<Comma>> \o NumberText(form.coordinates[2])

AttendeesInRange_noCap(n) == ~(isNaN(n) \/ n.v <= 0)

\* !(isNaN(maxAttendeesNum) || maxAttendeesNum <= 0 || maxAttendeesNum > MAX_ATTENDEES)
AttendeesInRange(n) == ~(isNaN(n) \/ n.v <= 0 \/ n.v > MAX_ATTENDEES)

\* the try block of handleSubmit reaches contractTx: no statement before it throws
Validates(form, clock) ==
  LET timestampMs == fromZonedTime(form.timestamp, form.eventTimezone)
      maxAttendeesNum == parseInt_radix10(form.maxAttendees)
      priceFloat == parseFloat(JStr(form.price))
      priceNumber == Number(JStr(form.price))
  IN /\ priceFloat.k = "num"     \* BigInt(NaN) raises RangeError
     /\ ~(IsNaN(timestampMs) \/ timestampMs <= clock)
     /\ AttendeesInRange(maxAttendeesNum)
     /\ ~(isNaN(priceNumber) \/ priceNumber.v < 0)
     /\ validateTextLength(form.title)
     /\ validateTextLength(form.description)
     /\ validateTextLength(form.eventTimezone)
     /\ (form.locationType = "online" \/ form.coordinates # NoCoords)
     /\ validateTextLength(LocationData(form))

\* a zone name longer than the contract accepts
LongZone == Repeat(90, MAX_TEXT_BYTES + 1)

\* a form that validates: an online meetup starting one millisecond after
\* the clock in Japan, its texts at the byte limit in two- and three-byte
\* characters
ValidForm ==
  [timestamp |-> Epoch0 + 9 * MsPerHour + 1,
   eventTimezone |-> Japan,
   maxAttendees |-> <<49, 48, 48, 48>>,
   price |-> <<49, Dot, 53>>,
   title |-> Repeat(233, 64),
   description |-> Repeat(8364, 42),
   locationType |-> "online",
   onlineMeetingUrl |-> Repeat(97, MAX_TEXT_BYTES),
   coordinates |-> NoCoords]

\* what the form may hold when it is submitted: the valid form and the forms
\* that differ from it in one field, or in the kind of location
Forms ==
  {ValidForm}
    \cup {[ValidForm EXCEPT !.timestamp = t] : t \in {NaN, Epoch0, Epoch0 + 9 * MsPerHour}}
    \cup {[ValidForm EXCEPT !.eventTimezone = z] : z \in {UTC, EST, NA, LongZone}}
    \cup {[ValidForm EXCEPT !.maxAttendees = a] :
            a \in {<<>>, <<48>>, <<49>>, <<Minus, 49>>, <<49, 48, 48, 49>>, <<53, 97>>}}
    \cup {[ValidForm EXCEPT !.price = p] :
            p \in {<<>>, <<48>>, <<Minus, 49>>, <<53, 97>>, <<97>>}}
    \cup {[ValidForm EXCEPT !.title = Repeat(233, 65)],
          [ValidForm EXCEPT !.title = <<>>],
          [ValidForm EXCEPT !.description = Repeat(8364, 43)],
          [ValidForm EXCEPT !.onlineMeetingUrl = Repeat(97, MAX_TEXT_BYTES + 1)],
          [ValidForm EXCEPT !.onlineMeetingUrl = <<>>]}
    \cup {[ValidForm EXCEPT !.locationType = "irl", !.coordinates = c] :
            c \in {NoCoords, <<515, -1>>}}

\* handleSubmit with the form it reads: up to the await of contractTx, or to
\* its end when the wallet is missing or a statement before contractTx throws
SubmitForm(activeSigner, form) ==
  /\ SubmitSteps(apiReady /\ activeAccount # NoAccount /\ activeSigner, Validates(form, now))
  /\ submitted' = <<[activeSigner |-> activeSigner, form |-> form]>>

\* the create form, freshly mounted
InitSubmit ==
  /\ localZone = UTC
  /\ now = Epoch0
  /\ activeAccount \in {NoAccount, Alice1}
  /\ apiReady \in BOOLEAN
  /\ PageIdle
  /\ CalIdle
  /\ EvalIdle
  /\ SuggestIdle
  /\ GeoIdle
  /\ DecodeIdle
  /\ CardIdle
  /\ EndIdle
  /\ FormIdle
  /\ detailsMeetup = NoMeetup
  /\ isUserRegistered = FALSE
  /\ canRegister = FALSE
  /\ isRegistering = FALSE
  /\ isUnregistering = FALSE
  /\ isSubmitting = FALSE
  /\ route = "/create"
  /\ runs = <<>>
  /\ requery = NoRequery

NextSubmit ==
  \/ \E activeSigner \in BOOLEAN, form \in Forms : SubmitForm(activeSigner, form)
  \/ \E i \in 1..MaxRuns : TxRejected(i)
  \/ \E i \in 1..MaxRuns, onRefetch \in BOOLEAN : CreateResolved(i, onRefetch)
  \/ \E i \in 1..MaxRuns : AppPageMount(i)

SpecSubmit == InitSubmit /\ [][NextSubmit]_vars

\* the step is a call of handleSubmit, and it sends create_meetup
SubmitCalled == submitted' # submitted
TxSent == runs' = Append(runs, Run("create", "tx", 0))

\* the validations of a submission: wallet, signer and contract present, a
\* valid start strictly in the future, 1..1000 attendees, a non-negative
\* price, the four texts within 128 bytes, coordinates for an in-person meetup
ChecksHold(s, connected, clock) ==
  LET form == s.form
      start == fromZonedTime(form.timestamp, form.eventTimezone)
      attendees == parseInt_radix10(form.maxAttendees)
      price == Number(JStr(form.price))
  IN /\ connected /\ s.activeSigner
     /\ ~IsNaN(start) /\ start > clock
     /\ attendees.k = "num" /\ attendees.v >= 1 /\ attendees.v <= 1000
     /\ price.k = "num" /\ price.v >= 0
     /\ getByteLength(form.title) <= 128
     /\ getByteLength(form.description) <= 128
     /\ getByteLength(form.eventTimezone) <= 128
     /\ form.locationType = "irl" => form.coordinates # NoCoords
     /\ (form.locationType = "online" \/ form.coordinates # NoCoords)
          => getByteLength(LocationData(form)) <= 128

\* C30: a call of handleSubmit sends create_meetup only if every validation
\* holds; when one fails nothing is sent, the view stays and isSubmitting is
\* false when the call ends.
C30_SubmitOnlyWhenValid ==
  [][ SubmitCalled =>
        LET holds == ChecksHold(submitted'[1], apiReady /\ activeAccount # NoAccount, now)
        IN /\ TxSent => holds
           /\ ~holds => (runs' = runs /\ route' = route /\ ~isSubmitting') ]_vars

\* a valid in-person form was submitted and its transaction is outstanding
C30_Witness ==
  /\ submitted # NoForm
  /\ submitted[1].form.locationType = "irl"
  /\ submitted[1].form.coordinates # NoCoords
  /\ runs = <<Run("create", "tx", 0)>>
  /\ isSubmitting
====
